---- MODULE Spec2Model ----
(***************************************************************************)
(* MirrorAPI: the schema diff engine (lib/diff, known through the          *)
(* specification and its callers) and the risk scorer (src/lib/score.ts).  *)
(*                                                                         *)
(* A JSON value is a record tagged with its variant:                       *)
(*   [tag |-> "Null"], [tag |-> "Boolean", b |-> ..],                      *)
(*   [tag |-> "Number", n |-> ..], [tag |-> "String", s |-> ..],           *)
(*   [tag |-> "Array", items |-> <<v1, .., vn>>],                          *)
(*   [tag |-> "Object", entries |-> <<[key |-> k1, val |-> v1], ..>>]      *)
(* An object keeps its entries in insertion order, with distinct keys.     *)
(*                                                                         *)
(* A change is [kind, path, loc, oldType, newType].  path is the string    *)
(* the program stores.  loc is an auxiliary (history) field that is not    *)
(* part of the program's data: the sequence of segments the walk descended *)
(* through, kept so that properties can speak of tree locations.  A type   *)
(* the program leaves out of a change (newType of a removal, oldType of an *)
(* addition) is the string "" here.                                        *)
(***************************************************************************)
EXTENDS Integers, Sequences, FiniteSets, TLC

VARIABLES oldJson, newJson, report, score, pc, views,
          oldUrl, newUrl, error, loading, call, served,
          searchQuery, selectedChangeType, currentPage, itemsPerPage,
          ragOutput, ragError, ragLoading, ragCalls

\* The rest of the page's state (src/unnamed/part_005, Page): the two URL
\* fields, the error line and the busy flag of analyze, the filters and the
\* pagination of the change list, and the AI explanation.  call is the
\* analyze invocation in flight and ragCalls are the analyzeWithRAG
\* invocations in flight, each with what it holds across its awaits;
\* served is the set of answers the network can give.
pageVars == <<oldUrl, newUrl, error, loading, call, served,
              searchQuery, selectedChangeType, currentPage, itemsPerPage,
              ragOutput, ragError, ragLoading, ragCalls>>

vars == <<oldJson, newJson, report, score, pc, views, pageVars>>

\* The value of a piece of state that holds nothing yet.
Nil == [tag |-> "Nil"]

\* Nothing has been rendered or exported yet.
NoViews == [badge |-> Nil, explanation |-> Nil, csv |-> Nil, pdf |-> Nil, markdown |-> Nil]

\* The page as its useState calls construct it, with nothing in flight.
PageConstructed ==
  /\ oldUrl = "" /\ newUrl = ""
  /\ error = Nil /\ loading = FALSE /\ call = Nil
  /\ searchQuery = "" /\ selectedChangeType = "ALL"
  /\ currentPage = 1 /\ itemsPerPage = 10
  /\ ragOutput = Nil /\ ragError = Nil /\ ragLoading = FALSE /\ ragCalls = {}

(***************************************************************************)
(* Bounds of the explored inputs.                                          *)
(***************************************************************************)
\* Nodes of the old and the new document together, both roots included.
MaxNodes == 6
\* Length of a freely mixed hand-built change list.
MaxChanges == 2
\* Length of a hand-built change list that repeats one change.
MaxRepeat == 8

(***************************************************************************)
(* JSON values                                                             *)
(***************************************************************************)
\* Object keys of the explored documents; "a.a" is also the path of key "a"
\* inside the value of key "a".
Keys == {"a", "a.a"}

JNull == [tag |-> "Null"]
JBool(x) == [tag |-> "Boolean", b |-> x]
JNum(x) == [tag |-> "Number", n |-> x]
JStr(x) == [tag |-> "String", s |-> x]
JArr(xs) == [tag |-> "Array", items |-> xs]
JObj(es) == [tag |-> "Object", entries |-> es]


\* One value of every scalar variant.
Scalars == {JNull, JBool(TRUE), JNum(1), JStr("x")}

\* The scalars of the larger documents: null alone.
NullOnly == {JNull}

RECURSIVE SeqsOfSize(_, _, _)
\* The sequences of w values whose node counts sum to total, where T[i] is
\* the set of the values of exactly i nodes.
SeqsOfSize(T, w, total) ==
  IF w = 0 THEN (IF total = 0 THEN {<<>>} ELSE {})
  ELSE UNION { { <<v>> \o rest : v \in T[a], rest \in SeqsOfSize(T, w - 1, total - a) }
               : a \in 1..(total - w + 1) }

RECURSIVE KeySeqs(_)
\* The sequences of w distinct keys: the insertion orders of an object.
KeySeqs(w) ==
  IF w = 0 THEN {<<>>}
  ELSE UNION { { Append(ks, k) : k \in Keys \ { ks[i] : i \in 1..Len(ks) } }
               : ks \in KeySeqs(w - 1) }

RECURSIVE ValuesBySize(_, _)
\* ValuesBySize(scalars, n)[i], i in 1..n: the JSON values of exactly i nodes.
ValuesBySize(scalars, n) ==
  IF n <= 1 THEN <<scalars \cup {JArr(<<>>), JObj(<<>>)}>>
  ELSE LET T == ValuesBySize(scalars, n - 1)
           arrays == UNION { { JArr(xs) : xs \in SeqsOfSize(T, w, n - 1) } : w \in 1..(n - 1) }
           objects == UNION { { JObj([i \in 1..w |-> [key |-> ks[i], val |-> xs[i]]]) :
                                  ks \in KeySeqs(w), xs \in SeqsOfSize(T, w, n - 1) }
                              : w \in 1..(n - 1) }
       IN  Append(T, arrays \cup objects)

\* The pairs of values over the scalars that have at most n nodes together.
PairsUpTo(scalars, n) ==
  LET T == ValuesBySize(scalars, n - 1)
  IN  UNION { T[q[1]] \X T[q[2]] : q \in { r \in (1..(n - 1)) \X (1..(n - 1)) : r[1] + r[2] <= n } }

\* The object of the given <<key, value>> pairs, in insertion order.
Obj(pairs) == JObj([i \in 1..Len(pairs) |-> [key |-> pairs[i][1], val |-> pairs[i][2]]])

\* The documents of the specification's scenarios 1 to 5 (section 8), as
\* pairs <<old, new>>.
Scenario1 == << Obj(<< <<"id", JNum(1)>> >>),
                Obj(<< <<"id", JNum(1)>>, <<"name", JStr("x")>> >>) >>
Scenario2 == << Obj(<< <<"id", JNum(1)>>, <<"flag", JBool(TRUE)>> >>),
                Obj(<< <<"id", JNum(1)>> >>) >>
Scenario3 == << Obj(<< <<"count", JNum(5)>> >>),
                Obj(<< <<"count", JStr("5")>> >>) >>
Scenario4 == << Obj(<< <<"meta", JBool(FALSE)>> >>),
                Obj(<< <<"meta", Obj(<< <<"active", JBool(TRUE)>> >>)>> >>) >>
Scenario5 == << Obj(<< <<"a", JNum(1)>>, <<"b", JNum(2)>>, <<"c", JBool(TRUE)>> >>),
                Obj(<< <<"a", JNum(1)>>, <<"d", JNum(4)>> >>) >>

\* Documents that lose two and five fields: 80 and 200 raw points.
TwoRemoved == << Obj(<< <<"a", JNum(1)>>, <<"b", JNum(2)>>, <<"c", JBool(TRUE)>> >>),
                 Obj(<< <<"a", JNum(1)>> >>) >>
FiveRemoved ==
  << Obj(<< <<"a", JNum(1)>>, <<"b", JNum(2)>>, <<"c", JBool(TRUE)>>,
            <<"d", JNum(4)>>, <<"e", JStr("x")>>, <<"f", JNull>> >>),
     Obj(<< <<"a", JNum(1)>> >>) >>

\* Documents whose common keys come in different insertion orders, one key
\* with a type change below it and one with a removal.
Shuffled == << Obj(<< <<"a", JArr(<<>>)>>, <<"b", JArr(<<JNull>>)>> >>),
               Obj(<< <<"b", JArr(<<>>)>>, <<"a", JObj(<<>>)>> >>) >>

Scenarios ==
  {Scenario1, Scenario2, Scenario3, Scenario4, Scenario5, TwoRemoved, FiveRemoved,
   Shuffled}

\* The explored pairs (old document, new document): every pair of at most
\* MaxNodes nodes built of empty arrays and empty objects, every pair of at
\* most MaxNodes - 1 nodes that also holds nulls, every pair of at most
\* MaxNodes - 2 nodes over all the scalars, and the scenarios.
Documents ==
  PairsUpTo({}, MaxNodes)
    \cup PairsUpTo(NullOnly, MaxNodes - 1)
    \cup PairsUpTo(Scalars, MaxNodes - 2)
    \cup Scenarios

(***************************************************************************)
(* Type Classifier (specification 4.1)                                     *)
(***************************************************************************)
TypeLabels == {"null", "boolean", "number", "string", "array", "object"}

classify(value) ==
  CASE value.tag = "Null" -> "null"
    [] value.tag = "Boolean" -> "boolean"
    [] value.tag = "Number" -> "number"
    [] value.tag = "String" -> "string"
    [] value.tag = "Array" -> "array"
    [] value.tag = "Object" -> "object"

(***************************************************************************)
(* Paths                                                                   *)
(***************************************************************************)
\* The path of key `key` under `path`: no leading dot under the root.
keyPath(path, key) == IF path = "" THEN key ELSE path \o "." \o key

\* The path of index i (0-based) under `path`.
indexPath(path, i) == path \o "[" \o ToString(i) \o "]"

KeySeg(key) == [seg |-> "key", key |-> key]
IndexSeg(i) == [seg |-> "index", index |-> i]

(***************************************************************************)
(* Diff Engine (specification 4.2)                                         *)
(***************************************************************************)
RemovedField(path, loc, oldType) ==
  [kind |-> "REMOVED_FIELD", path |-> path, loc |-> loc, oldType |-> oldType, newType |-> ""]

AddedField(path, loc, newType) ==
  [kind |-> "ADDED_FIELD", path |-> path, loc |-> loc, oldType |-> "", newType |-> newType]

TypeChanged(path, loc, oldType, newType) ==
  [kind |-> "TYPE_CHANGED", path |-> path, loc |-> loc, oldType |-> oldType, newType |-> newType]

\* The keys of an object, in insertion order.
keysOf(obj) == [i \in 1..Len(obj.entries) |-> obj.entries[i].key]

\* A slip: a key counts as present only when its value is not null.
hasKeyNotNull(obj, key) ==
  \E i \in 1..Len(obj.entries) : obj.entries[i].key = key /\ obj.entries[i].val # JNull

\* Presence of a key is its existence in the key set, whatever its value.
hasKey(obj, key) == \E i \in 1..Len(obj.entries) : obj.entries[i].key = key

\* obj[key], for a key the object has.
valueAt(obj, key) ==
  obj.entries[CHOOSE i \in 1..Len(obj.entries) : obj.entries[i].key = key].val

RECURSIVE Flatten(_)
\* The concatenation of a sequence of sequences.
Flatten(ss) == IF ss = <<>> THEN <<>> ELSE Head(ss) \o Flatten(Tail(ss))

Min(a, b) == IF a <= b THEN a ELSE b
Max(a, b) == IF a >= b THEN a ELSE b

RECURSIVE walk(_, _, _, _)

\* For each key in oldKeys \ newKeys: RemovedField, typed by old[key].
removedKeys(old, new, path, loc) ==
  LET oldKeys == keysOf(old)
  IN  Flatten([i \in 1..Len(oldKeys) |->
                 IF hasKey(new, oldKeys[i]) THEN <<>>
                 ELSE <<RemovedField(keyPath(path, oldKeys[i]),
                                     Append(loc, KeySeg(oldKeys[i])),
                                     classify(valueAt(old, oldKeys[i])))>>])

\* A slip: the test looks the key up in the object it was taken from.
addedKeysNever(old, new, path, loc) ==
  LET newKeys == keysOf(new)
  IN  Flatten([i \in 1..Len(newKeys) |->
                 IF hasKey(new, newKeys[i]) THEN <<>>
                 ELSE <<AddedField(keyPath(path, newKeys[i]),
                                   Append(loc, KeySeg(newKeys[i])),
                                   classify(valueAt(new, newKeys[i])))>>])

\* For each key in newKeys \ oldKeys: AddedField, typed by new[key].
addedKeys(old, new, path, loc) ==
  LET newKeys == keysOf(new)
  IN  Flatten([i \in 1..Len(newKeys) |->
                 IF hasKey(old, newKeys[i]) THEN <<>>
                 ELSE <<AddedField(keyPath(path, newKeys[i]),
                                   Append(loc, KeySeg(newKeys[i])),
                                   classify(valueAt(new, newKeys[i])))>>])

\* For each key in both, in old's key order: recurse.
commonKeys(old, new, path, loc) ==
  LET oldKeys == keysOf(old)
  IN  Flatten([i \in 1..Len(oldKeys) |->
                 IF hasKey(new, oldKeys[i])
                   THEN walk(valueAt(old, oldKeys[i]), valueAt(new, oldKeys[i]),
                             keyPath(path, oldKeys[i]), Append(loc, KeySeg(oldKeys[i])))
                   ELSE <<>>])

\* Both sides are objects.
walkObject(old, new, path, loc) ==
  removedKeys(old, new, path, loc)
    \o addedKeys(old, new, path, loc)
    \o commonKeys(old, new, path, loc)

\* For i in [0, n): recurse at path[i].
commonItems(old, new, path, loc) ==
  LET n == Min(Len(old.items), Len(new.items))
  IN  Flatten([i \in 1..n |->
                 walk(old.items[i], new.items[i],
                      indexPath(path, i - 1), Append(loc, IndexSeg(i - 1)))])

\* For i in [n, len(old)): RemovedField at path[i], typed by old[i].
trailingRemoved(old, new, path, loc) ==
  LET m == Len(old.items)
      n == Min(m, Len(new.items))
  IN  [i \in 1..(m - n) |->
         RemovedField(indexPath(path, n + i - 1), Append(loc, IndexSeg(n + i - 1)),
                      classify(old.items[n + i]))]

\* A slip: the trailing elements of new are numbered from 0.
trailingAddedFromZero(old, new, path, loc) ==
  LET k == Len(new.items)
      n == Min(Len(old.items), k)
  IN  [i \in 1..(k - n) |->
         AddedField(indexPath(path, i - 1), Append(loc, IndexSeg(i - 1)),
                    classify(new.items[n + i]))]

\* A slip: an array that grew reports nothing for its new elements.
trailingAddedNone(old, new, path, loc) == <<>>

\* For i in [n, len(new)): AddedField at path[i], typed by new[i].
trailingAdded(old, new, path, loc) ==
  LET k == Len(new.items)
      n == Min(Len(old.items), k)
  IN  [i \in 1..(k - n) |->
         AddedField(indexPath(path, n + i - 1), Append(loc, IndexSeg(n + i - 1)),
                    classify(new.items[n + i]))]

\* Both sides are arrays.
walkArray(old, new, path, loc) ==
  commonItems(old, new, path, loc)
    \o trailingRemoved(old, new, path, loc)
    \o trailingAdded(old, new, path, loc)

\* A slip: after reporting a type mismatch the walk goes on into the new
\* value, as if the old side were an empty container of its type.
walkPastMismatch(old, new, path, loc) ==
  IF classify(old) # classify(new)
    THEN <<TypeChanged(path, loc, classify(old), classify(new))>>
           \o (IF classify(new) = "object" THEN walkObject(JObj(<<>>), new, path, loc)
               ELSE IF classify(new) = "array" THEN walkArray(JArr(<<>>), new, path, loc)
               ELSE <<>>)
  ELSE IF classify(old) = "object" THEN walkObject(old, new, path, loc)
  ELSE IF classify(old) = "array" THEN walkArray(old, new, path, loc)
  ELSE <<>>

\* The changes between old and new, both standing at `path`.
walk(old, new, path, loc) ==
  IF classify(old) # classify(new)
    THEN <<TypeChanged(path, loc, classify(old), classify(new))>>
  ELSE IF classify(old) = "object" THEN walkObject(old, new, path, loc)
  ELSE IF classify(old) = "array" THEN walkArray(old, new, path, loc)
  ELSE <<>>

RECURSIVE countKind(_, _)
\* How many of the changes are of the kind.
countKind(changes, kind) ==
  IF changes = <<>> THEN 0
  ELSE (IF Head(changes).kind = kind THEN 1 ELSE 0) + countKind(Tail(changes), kind)

\* A slip: every breaking change, removals included, is counted as risky.
summarizeBreaking(changes) ==
  [added |-> countKind(changes, "ADDED_FIELD"),
   removed |-> countKind(changes, "REMOVED_FIELD"),
   risky |-> countKind(changes, "TYPE_CHANGED") + countKind(changes, "REMOVED_FIELD")]

\* added and removed count the additions and removals, risky the type changes.
summarize(changes) ==
  [added |-> countKind(changes, "ADDED_FIELD"),
   removed |-> countKind(changes, "REMOVED_FIELD"),
   risky |-> countKind(changes, "TYPE_CHANGED")]

diffSchemas(old, new) ==
  LET changes == walk(old, new, "", <<>>)
  IN  [changes |-> changes, summary |-> summarize(changes)]

(***************************************************************************)
(* Risk Scorer (src/lib/score.ts)                                          *)
(***************************************************************************)
REMOVED_FIELD == 40
TYPE_CHANGED_STRUCTURAL == 35
TYPE_CHANGED_INCOMPATIBLE == 25
TYPE_CHANGED_COMPATIBLE == 15
ADDED_FIELD == 5

NORMALIZATION_FACTOR == 50

\* A slip: every pair of scalar types passes as compatible.
areTypesCompatibleLoose(oldType, newType) ==
  IF oldType = "null" \/ newType = "null" THEN TRUE
  ELSE IF /\ oldType \in {"string", "number", "boolean"}
          /\ newType \in {"string", "number", "boolean"}
    THEN TRUE
  ELSE oldType = newType

areTypesCompatible(oldType, newType) ==
  IF oldType = "null" \/ newType = "null" THEN TRUE
  ELSE IF \/ (oldType = "string" /\ newType = "number")
          \/ (oldType = "number" /\ newType = "string")
    THEN TRUE
  ELSE oldType = newType

\* A slip: compatibility is tested before the structural rule.
changePointsCompatibleFirst(change) ==
  CASE change.kind = "REMOVED_FIELD" -> REMOVED_FIELD
    [] change.kind = "TYPE_CHANGED" ->
         LET oldType == change.oldType
             newType == change.newType
             isStructuralChange ==
               \/ (oldType = "object" \/ oldType = "array")
               \/ (newType = "object" \/ newType = "array")
         IN  IF areTypesCompatible(oldType, newType) THEN TYPE_CHANGED_COMPATIBLE
             ELSE IF isStructuralChange THEN TYPE_CHANGED_STRUCTURAL
             ELSE TYPE_CHANGED_INCOMPATIBLE
    [] change.kind = "ADDED_FIELD" -> ADDED_FIELD
    [] OTHER -> 0

\* A slip: the structural rule looks at the old type alone.
changePointsOldTypeOnly(change) ==
  CASE change.kind = "REMOVED_FIELD" -> REMOVED_FIELD
    [] change.kind = "TYPE_CHANGED" ->
         LET oldType == change.oldType
             newType == change.newType
             isStructuralChange == oldType = "object" \/ oldType = "array"
         IN  IF isStructuralChange THEN TYPE_CHANGED_STRUCTURAL
             ELSE IF areTypesCompatible(oldType, newType) THEN TYPE_CHANGED_COMPATIBLE
             ELSE TYPE_CHANGED_INCOMPATIBLE
    [] change.kind = "ADDED_FIELD" -> ADDED_FIELD
    [] OTHER -> 0

\* A slip: a removed or added object or array is weighed as a structural
\* change.
changePointsStructuralSubtree(change) ==
  CASE change.kind = "TYPE_CHANGED" ->
         IF \/ change.oldType \in {"object", "array"}
            \/ change.newType \in {"object", "array"}
           THEN TYPE_CHANGED_STRUCTURAL
         ELSE IF areTypesCompatible(change.oldType, change.newType)
           THEN TYPE_CHANGED_COMPATIBLE
         ELSE TYPE_CHANGED_INCOMPATIBLE
    [] change.kind = "REMOVED_FIELD" ->
         IF change.oldType \in {"object", "array"} THEN TYPE_CHANGED_STRUCTURAL
         ELSE REMOVED_FIELD
    [] change.kind = "ADDED_FIELD" ->
         IF change.newType \in {"object", "array"} THEN TYPE_CHANGED_STRUCTURAL
         ELSE ADDED_FIELD
    [] OTHER -> 0

\* A slip: an added field carries no risk.
changePointsAddedFree(change) ==
  CASE change.kind = "REMOVED_FIELD" -> REMOVED_FIELD
    [] change.kind = "TYPE_CHANGED" ->
         IF \/ change.oldType \in {"object", "array"}
            \/ change.newType \in {"object", "array"}
           THEN TYPE_CHANGED_STRUCTURAL
         ELSE IF areTypesCompatible(change.oldType, change.newType)
           THEN TYPE_CHANGED_COMPATIBLE
         ELSE TYPE_CHANGED_INCOMPATIBLE
    [] OTHER -> 0

\* What one iteration of the loop adds to totalScore.
changePoints(change) ==
  CASE change.kind = "REMOVED_FIELD" -> REMOVED_FIELD
    [] change.kind = "TYPE_CHANGED" ->
         LET oldType == change.oldType
             newType == change.newType
             isStructuralChange ==
               \/ (oldType = "object" \/ oldType = "array")
               \/ (newType = "object" \/ newType = "array")
         IN  IF isStructuralChange THEN TYPE_CHANGED_STRUCTURAL
             ELSE IF areTypesCompatible(oldType, newType) THEN TYPE_CHANGED_COMPATIBLE
             ELSE TYPE_CHANGED_INCOMPATIBLE
    [] change.kind = "ADDED_FIELD" -> ADDED_FIELD
    [] OTHER -> 0

\* A slip: the loop assigns where it should add, so the last change alone counts.
totalScoreLast(changes) ==
  IF changes = <<>> THEN 0
  ELSE changePoints(changes[Len(changes)])

RECURSIVE totalScoreStopAtRemoved(_)
\* A slip: the REMOVED_FIELD case leaves the loop, not the switch.
totalScoreStopAtRemoved(changes) ==
  IF changes = <<>> THEN 0
  ELSE IF Head(changes).kind = "REMOVED_FIELD" THEN REMOVED_FIELD
  ELSE changePoints(Head(changes)) + totalScoreStopAtRemoved(Tail(changes))

RECURSIVE totalScore(_)
\* totalScore after the loop over the changes.
totalScore(changes) ==
  IF changes = <<>> THEN 0
  ELSE changePoints(Head(changes)) + totalScore(Tail(changes))

(***************************************************************************)
(* Math.exp and Math.round in fixed point.  A real x in [0, 1] is the      *)
(* integer x * Scale, Scale = 10^8; products are formed limb by limb in    *)
(* base 10^4 so that no intermediate value passes 2^31.  The error of      *)
(* ExpNeg is below 2 * 10^-7, that of the normalized score below           *)
(* 2 * 10^-5, while 100 * (1 - e^(-t/50)) stays further than 4 * 10^-4     *)
(* from every half-integer for every integer t >= 0 (nearest: t = 210,     *)
(* 98.50044), so Math.round sees the same side as it does in double        *)
(* precision.                                                              *)
(***************************************************************************)
Limb == 10000
Scale == Limb * Limb

\* x * y / Scale, rounded down, for x, y in 0..Scale.
MulFix(x, y) ==
  LET hi == x \div Limb
      lo == x % Limb
      y1 == y \div Limb
      y2 == y % Limb
  IN  hi * y1 + (hi * y2 + lo * y1 + (lo * y2) \div Limb) \div Limb

\* e^(-1/d) * Scale by its Taylor series, for d >= 10.
ExpNegUnit(d) ==
  Scale - Scale \div d + (Scale \div d) \div (2 * d)
        - ((Scale \div d) \div (2 * d)) \div (3 * d)
        + (((Scale \div d) \div (2 * d)) \div (3 * d)) \div (4 * d)

RECURSIVE PowFix(_, _)
\* (x / Scale)^n * Scale.
PowFix(x, n) ==
  IF n = 0 THEN Scale
  ELSE IF n % 2 = 0 THEN LET h == PowFix(x, n \div 2) IN MulFix(h, h)
  ELSE MulFix(PowFix(x, n - 1), x)

\* Math.exp(-total / d) * Scale, for an integer total >= 0.
ExpNeg(total, d) == PowFix(ExpNegUnit(d), total)

Million == Scale \div 100

\* 100 * (1 - Math.exp(-totalScore / NORMALIZATION_FACTOR)), in millionths:
\* 100 * Million * (1 - x) = Scale - x * Scale.
normalizedScore(total) == Scale - ExpNeg(total, NORMALIZATION_FACTOR)

\* A slip: Math.floor where the code calls Math.round.
MathFloor(millionths) == millionths \div Million

\* Math.round of a value given in millionths: the nearest integer, halves up.
MathRound(millionths) == (millionths + Million \div 2) \div Million

\* A slip: the raw total is returned, not normalized.
scoreDiffRaw(r) ==
  IF Len(r.changes) = 0 THEN 0
  ELSE totalScore(r.changes)

scoreDiff(r) ==
  IF Len(r.changes) = 0 THEN 0
  ELSE MathRound(Max(0, Min(100 * Million, normalizedScore(totalScore(r.changes)))))

(***************************************************************************)
(* Spec: one comparison.  The caller holds two parsed documents; analyze   *)
(* runs the diff engine and hands its report to the scorer                 *)
(* (src/app/page.tsx, analyze: diffSchemas(old, new), then scoreDiff).     *)
(***************************************************************************)
Init ==
  /\ \E d \in Documents : oldJson = d[1] /\ newJson = d[2]
  /\ report = Nil
  /\ score = Nil
  /\ pc = "loaded"
  /\ views = NoViews
  /\ PageConstructed /\ served = {}

analyze ==
  /\ pc = "loaded"
  /\ LET diff == diffSchemas(oldJson, newJson)
         s == scoreDiff(diff)
     IN  report' = diff /\ score' = s
  /\ pc' = "analyzed"
  /\ UNCHANGED <<oldJson, newJson, views, pageVars>>

Next == analyze

Spec == Init /\ [][Next]_vars

(***************************************************************************)
(* ScoreSpec: the scorer on hand-built reports.  A report grows one change *)
(* at a time, over every kind and every pair of type labels, and is then   *)
(* scored.                                                                 *)
(***************************************************************************)
\* Every change the scorer can tell apart (the path plays no part).
ChangeShapes ==
  { RemovedField("p", <<>>, t) : t \in TypeLabels }
    \cup { AddedField("p", <<>>, t) : t \in TypeLabels }
    \cup { TypeChanged("p", <<>>, a, b) : a \in TypeLabels, b \in TypeLabels }

ScoreInit ==
  /\ oldJson = Nil
  /\ newJson = Nil
  /\ report = [changes |-> <<>>, summary |-> summarize(<<>>)]
  /\ score = Nil
  /\ pc = "building"
  /\ views = NoViews
  /\ PageConstructed /\ served = {}

\* A list stays freely mixed up to MaxChanges, and may go on repeating its
\* only change up to MaxRepeat.
AppendChange ==
  /\ pc = "building"
  /\ \E c \in ChangeShapes :
       /\ \/ Len(report.changes) < MaxChanges
          \/ /\ Len(report.changes) < MaxRepeat
             /\ \A i \in 1..Len(report.changes) : report.changes[i] = c
       /\ report' = [changes |-> Append(report.changes, c),
                     summary |-> summarize(Append(report.changes, c))]
  /\ UNCHANGED <<oldJson, newJson, score, pc, views, pageVars>>

ScoreReport ==
  /\ pc = "building"
  /\ score' = scoreDiff(report)
  /\ pc' = "scored"
  /\ UNCHANGED <<oldJson, newJson, report, views, pageVars>>

ScoreNext == AppendChange \/ ScoreReport

ScoreSpec == ScoreInit /\ [][ScoreNext]_vars

(***************************************************************************)
(* Vocabulary of the properties                                            *)
(***************************************************************************)
Analyzed == pc = "analyzed"

\* The positions of the report's changes made at the location.
ChangesAt(r, loc) == { i \in 1..Len(r.changes) : r.changes[i].loc = loc }

IsPrefix(l, m) == Len(l) <= Len(m) /\ SubSeq(m, 1, Len(l)) = l

RECURSIVE PathOf(_)
\* The path string of a location: '.key' for a key, with no dot in front of
\* a top-level key, and '[i]' for an index.
PathOf(loc) ==
  IF loc = <<>> THEN ""
  ELSE LET parent == PathOf(SubSeq(loc, 1, Len(loc) - 1))
           last == loc[Len(loc)]
       IN  IF last.seg = "key"
             THEN (IF parent = "" THEN last.key ELSE parent \o "." \o last.key)
             ELSE parent \o "[" \o ToString(last.index) \o "]"

RECURSIVE Visited(_, _, _)
\* The places the lock-step walk compares: the root, and below a place
\* where both sides are objects (arrays) the common keys (indices).
Visited(old, new, loc) ==
  {[loc |-> loc, old |-> old, new |-> new]} \cup
  ( IF old.tag = "Object" /\ new.tag = "Object"
      THEN UNION { Visited(old.entries[i].val, new.entries[j].val,
                           Append(loc, KeySeg(old.entries[i].key)))
                   : <<i, j>> \in { q \in (1..Len(old.entries)) \X (1..Len(new.entries)) :
                                     old.entries[q[1]].key = new.entries[q[2]].key } }
    ELSE IF old.tag = "Array" /\ new.tag = "Array"
      THEN UNION { Visited(old.items[i], new.items[i], Append(loc, IndexSeg(i - 1)))
                   : i \in 1..Min(Len(old.items), Len(new.items)) }
    ELSE {} )

\* The type label the specification gives each variant of a JSON value.
LabelOf(v) ==
  [Null |-> "null", Boolean |-> "boolean", Number |-> "number",
   String |-> "string", Array |-> "array", Object |-> "object"][v.tag]

(***************************************************************************)
(* Properties                                                              *)
(***************************************************************************)
NoChanges(r) ==
  /\ r.changes = <<>>
  /\ r.summary.added = 0 /\ r.summary.removed = 0 /\ r.summary.risky = 0

\* C1 (identity): comparing a JSON value with itself gives an empty change
\* list, a summary of three zeroes and the score 0.  Checked for the report
\* of every analysed pair of equal documents and, at every analysed state,
\* for each of the two documents compared with itself.
C1_Identity ==
  Analyzed =>
    /\ oldJson = newJson => NoChanges(report) /\ score = 0
    /\ \A x \in {oldJson, newJson} :
         NoChanges(diffSchemas(x, x)) /\ scoreDiff(diffSchemas(x, x)) = 0

\* C1 witness: an analysed pair of equal documents, an object holding a
\* container that is not empty.
C1_Witness ==
  /\ Analyzed
  /\ oldJson = newJson
  /\ oldJson.tag = "Object"
  /\ \E i \in 1..Len(oldJson.entries) :
       LET v == oldJson.entries[i].val
       IN  \/ v.tag = "Array" /\ Len(v.items) > 0
           \/ v.tag = "Object" /\ Len(v.entries) > 0
  /\ score = 0

\* C2 (no recursion past a type mismatch): at every place the walk compares
\* where the two sides classify differently, the report holds exactly one
\* change made there, it is TypeChanged with that place's path and the two
\* labels, and no change is made anywhere below that place; at the root the
\* report is that single change.
C2_NoRecursionPastMismatch ==
  Analyzed =>
    \A v \in Visited(oldJson, newJson, <<>>) :
      LabelOf(v.old) # LabelOf(v.new) =>
        /\ Cardinality(ChangesAt(report, v.loc)) = 1
        /\ \A i \in ChangesAt(report, v.loc) :
             report.changes[i] =
               TypeChanged(PathOf(v.loc), v.loc, LabelOf(v.old), LabelOf(v.new))
        /\ \A i \in 1..Len(report.changes) :
             IsPrefix(v.loc, report.changes[i].loc) => report.changes[i].loc = v.loc
        /\ v.loc = <<>> => Len(report.changes) = 1

\* A container with something in it.
NonEmptyContainer(v) ==
  \/ v.tag = "Array" /\ Len(v.items) > 0
  \/ v.tag = "Object" /\ Len(v.entries) > 0

\* C2 witness: an analysed pair with a mismatch below the root, one side of
\* it a container with children, next to another change of the report.
C2_Witness ==
  /\ Analyzed
  /\ Len(report.changes) > 1
  /\ \E v \in Visited(oldJson, newJson, <<>>) :
       /\ v.loc # <<>>
       /\ LabelOf(v.old) # LabelOf(v.new)
       /\ NonEmptyContainer(v.old) \/ NonEmptyContainer(v.new)
       /\ \E i \in 1..Len(report.changes) :
            report.changes[i].kind = "TYPE_CHANGED" /\ report.changes[i].loc = v.loc

\* The keys of an object value, as a set.
KeySet(v) == { v.entries[i].key : i \in 1..Len(v.entries) }

\* The value an object holds under one of its keys.
Lookup(v, key) == v.entries[CHOOSE i \in 1..Len(v.entries) : v.entries[i].key = key].val

\* C3 (object comparison by key set): where both sides are objects, a key
\* only in old yields exactly one change at its place, RemovedField with the
\* key's path and the label of old[key]; a key only in new yields exactly
\* one, AddedField with the label of new[key]; a common key yields no
\* RemovedField and no AddedField at its place.  A key mapped to null is a
\* present key of type "null".
C3_ObjectByKeySet ==
  Analyzed =>
    \A v \in Visited(oldJson, newJson, <<>>) :
      (v.old.tag = "Object" /\ v.new.tag = "Object") =>
        /\ \A key \in KeySet(v.old) \ KeySet(v.new) :
             LET l == Append(v.loc, KeySeg(key))
             IN  /\ Cardinality(ChangesAt(report, l)) = 1
                 /\ \A i \in ChangesAt(report, l) :
                      report.changes[i] =
                        RemovedField(PathOf(l), l, LabelOf(Lookup(v.old, key)))
        /\ \A key \in KeySet(v.new) \ KeySet(v.old) :
             LET l == Append(v.loc, KeySeg(key))
             IN  /\ Cardinality(ChangesAt(report, l)) = 1
                 /\ \A i \in ChangesAt(report, l) :
                      report.changes[i] =
                        AddedField(PathOf(l), l, LabelOf(Lookup(v.new, key)))
        /\ \A key \in KeySet(v.old) \cap KeySet(v.new) :
             \A i \in ChangesAt(report, Append(v.loc, KeySeg(key))) :
               /\ report.changes[i].kind = "TYPE_CHANGED"
               /\ LabelOf(Lookup(v.old, key)) # LabelOf(Lookup(v.new, key))

\* C3 witness: two root objects where a key mapped to null is gone from new
\* (reported removed with type "null") and a common key went from null to
\* another type (reported as a type change, not as an addition).
C3_Witness ==
  /\ Analyzed
  /\ oldJson.tag = "Object" /\ newJson.tag = "Object"
  /\ \E key \in KeySet(oldJson) \ KeySet(newJson) :
       /\ Lookup(oldJson, key) = JNull
       /\ \E i \in 1..Len(report.changes) :
            report.changes[i] = RemovedField(key, <<KeySeg(key)>>, "null")
  /\ \E key \in KeySet(oldJson) \cap KeySet(newJson) :
       /\ Lookup(oldJson, key) = JNull
       /\ Lookup(newJson, key) # JNull
       /\ \E i \in 1..Len(report.changes) :
            report.changes[i] =
              TypeChanged(key, <<KeySeg(key)>>, "null", LabelOf(Lookup(newJson, key)))
  /\ report.summary.added = 0

\* The positions of the changes of a kind made at the indices of the array
\* at the location.
IndexChanges(r, loc, kind) ==
  { i \in 1..Len(r.changes) :
      /\ r.changes[i].kind = kind
      /\ Len(r.changes[i].loc) = Len(loc) + 1
      /\ IsPrefix(loc, r.changes[i].loc)
      /\ r.changes[i].loc[Len(loc) + 1].seg = "index" }

\* C4 (arrays are compared by position): where both sides are arrays of
\* lengths m and k, the indices k..m-1 each carry exactly one change,
\* RemovedField with the label of old[i], the indices m..k-1 each exactly
\* one, AddedField with the label of new[i], these are all the removals and
\* additions among the array's indices (max(0, m-k) and max(0, k-m) of
\* them, never both), and a common index carries at most a TypeChanged of
\* the two elements standing at that position.
C4_ArrayPositional ==
  Analyzed =>
    \A v \in Visited(oldJson, newJson, <<>>) :
      (v.old.tag = "Array" /\ v.new.tag = "Array") =>
        LET m == Len(v.old.items)
            k == Len(v.new.items)
            at(i) == Append(v.loc, IndexSeg(i))
        IN  /\ \A i \in k..(m - 1) :
                 /\ Cardinality(ChangesAt(report, at(i))) = 1
                 /\ \A j \in ChangesAt(report, at(i)) :
                      report.changes[j] =
                        RemovedField(PathOf(at(i)), at(i), LabelOf(v.old.items[i + 1]))
            /\ \A i \in m..(k - 1) :
                 /\ Cardinality(ChangesAt(report, at(i))) = 1
                 /\ \A j \in ChangesAt(report, at(i)) :
                      report.changes[j] =
                        AddedField(PathOf(at(i)), at(i), LabelOf(v.new.items[i + 1]))
            /\ Cardinality(IndexChanges(report, v.loc, "REMOVED_FIELD")) = Max(0, m - k)
            /\ Cardinality(IndexChanges(report, v.loc, "ADDED_FIELD")) = Max(0, k - m)
            /\ IndexChanges(report, v.loc, "REMOVED_FIELD") = {}
                 \/ IndexChanges(report, v.loc, "ADDED_FIELD") = {}
            /\ \A i \in 0..(Min(m, k) - 1) :
                 \A j \in ChangesAt(report, at(i)) :
                   report.changes[j] =
                     TypeChanged(PathOf(at(i)), at(i),
                                 LabelOf(v.old.items[i + 1]), LabelOf(v.new.items[i + 1]))

\* C4 witness: an array that lost trailing elements while its first position
\* changed type.
C4_Witness ==
  /\ Analyzed
  /\ \E v \in Visited(oldJson, newJson, <<>>) :
       /\ v.old.tag = "Array" /\ v.new.tag = "Array"
       /\ Len(v.new.items) >= 1
       /\ Len(v.old.items) > Len(v.new.items)
       /\ LabelOf(v.old.items[1]) # LabelOf(v.new.items[1])
       /\ IndexChanges(report, v.loc, "REMOVED_FIELD") # {}

\* The (path, type) pairs of the changes of a kind, the type taken from field f.
Entries(r, kind, f) ==
  { <<r.changes[i].path, r.changes[i][f]>> :
      i \in { j \in 1..Len(r.changes) : r.changes[j].kind = kind } }

\* The (path, oldType, newType) triples of the type changes.
TypeChanges(r) ==
  { <<r.changes[i].path, r.changes[i].oldType, r.changes[i].newType>> :
      i \in { j \in 1..Len(r.changes) : r.changes[j].kind = "TYPE_CHANGED" } }

\* C5 (symmetry of kind): the report of (old, new) has a RemovedField at p
\* with oldType t exactly when the report of (new, old) has an AddedField at
\* p with newType t, and conversely; it has TypeChanged{p, a, b} exactly
\* when the other has TypeChanged{p, b, a}; the two reports are equally
\* long, with added and removed swapped in the summary and risky equal.
C5_Symmetry ==
  Analyzed =>
    LET back == diffSchemas(newJson, oldJson)
    IN  /\ Entries(report, "REMOVED_FIELD", "oldType") = Entries(back, "ADDED_FIELD", "newType")
        /\ Entries(report, "ADDED_FIELD", "newType") = Entries(back, "REMOVED_FIELD", "oldType")
        /\ TypeChanges(report) = { <<t[1], t[3], t[2]>> : t \in TypeChanges(back) }
        /\ Len(report.changes) = Len(back.changes)
        /\ report.summary.added = back.summary.removed
        /\ report.summary.removed = back.summary.added
        /\ report.summary.risky = back.summary.risky

\* C5 witness: an analysed pair whose report holds a removal and a type
\* change below the root, and whose reverse report holds an addition.
C5_Witness ==
  /\ Analyzed
  /\ \E i, j \in 1..Len(report.changes) :
       /\ report.changes[i].kind = "REMOVED_FIELD"
       /\ report.changes[j].kind = "TYPE_CHANGED"
       /\ Len(report.changes[j].loc) >= 1
  /\ diffSchemas(newJson, oldJson).summary.added > 0

\* C6 (report order), as claimed: no AddedField stands before a RemovedField
\* or a TypeChanged in the report.
C6_RemovalsAndTypeChangesFirst ==
  Analyzed =>
    \A i, j \in 1..Len(report.changes) :
      (i < j /\ report.changes[i].kind = "ADDED_FIELD") =>
        report.changes[j].kind = "ADDED_FIELD"

\* C7 (path uniqueness), as claimed: no path string occurs in two changes of
\* a report.
C7_PathsUnique ==
  Analyzed =>
    \A i, j \in 1..Len(report.changes) :
      i # j => report.changes[i].path # report.changes[j].path

\* C8 (summary consistency): added, removed and risky are the numbers of
\* AddedField, RemovedField and TypeChanged changes, and they add up to the
\* length of the change list.
C8_SummaryConsistent ==
  Analyzed =>
    /\ report.summary.added =
         Cardinality({ i \in 1..Len(report.changes) : report.changes[i].kind = "ADDED_FIELD" })
    /\ report.summary.removed =
         Cardinality({ i \in 1..Len(report.changes) : report.changes[i].kind = "REMOVED_FIELD" })
    /\ report.summary.risky =
         Cardinality({ i \in 1..Len(report.changes) : report.changes[i].kind = "TYPE_CHANGED" })
    /\ report.summary.added + report.summary.removed + report.summary.risky
         = Len(report.changes)

\* C8 witness: an analysed report of three changes or more, of two kinds.
C8_Witness ==
  /\ Analyzed
  /\ report.summary.removed >= 2
  /\ report.summary.risky >= 1
  /\ Len(report.changes) >= 3

Scored == pc = "scored"

\* The points of one change by the table of the specification.
TablePoints(c) ==
  LET structural == {c.oldType, c.newType} \cap {"object", "array"} # {}
      compatible == \/ "null" \in {c.oldType, c.newType}
                    \/ {c.oldType, c.newType} = {"string", "number"}
                    \/ c.oldType = c.newType
  IN  IF c.kind = "REMOVED_FIELD" THEN 40
      ELSE IF c.kind = "ADDED_FIELD" THEN 5
      ELSE IF structural THEN 35
      ELSE IF compatible THEN 15
      ELSE 25

RECURSIVE TableTotal(_)
TableTotal(changes) ==
  IF changes = <<>> THEN 0
  ELSE TablePoints(changes[1]) + TableTotal(Tail(changes))

\* s is the integer nearest to the value v given in millionths, halves up.
IsRounded(s, v) == 2 * Million * s - Million <= 2 * v /\ 2 * v < 2 * Million * s + Million

\* C9 (points table and normalization): the total is 40 per RemovedField, 5
\* per AddedField and per TypeChanged 35 if a type is object or array, else
\* 15 if the pair is compatible, else 25; the score of a report with
\* changes is 100 * (1 - e^(-total/50)), clamped to [0, 100] and rounded,
\* a function of the total alone.
C9_PointsAndNormalization ==
  Scored =>
    LET total == TableTotal(report.changes)
        v == Scale - ExpNeg(total, 50)
        clamped == IF v < 0 THEN 0 ELSE IF v > 100 * Million THEN 100 * Million ELSE v
    IN  /\ \A i \in 1..Len(report.changes) :
             changePoints(report.changes[i]) = TablePoints(report.changes[i])
        /\ totalScore(report.changes) = total
        /\ report.changes # <<>> => IsRounded(score, clamped)

\* C9 witness: the scored report of a null -> object change (35 points, the
\* structural rule before null-compatibility) and a boolean -> number change
\* (25 points): 60 points, score 70.
C9_Witness ==
  /\ Scored
  /\ report.changes = <<TypeChanged("p", <<>>, "null", "object"),
                        TypeChanged("p", <<>>, "boolean", "number")>>
  /\ score = 70

\* C10 (boundedness): the score of every report is an integer from 0 to 100.
C10_Bounded == Scored => score \in 0..100

\* C10 witness: a scored report of seven removals or more (280 raw points
\* and beyond), where the score stands at the upper end of the range.
C10_Witness ==
  /\ Scored
  /\ Len(report.changes) >= 7
  /\ \A i \in 1..Len(report.changes) : report.changes[i].kind = "REMOVED_FIELD"
  /\ score = 100

(***************************************************************************)
(* C11 - C17: the scorer on hand-built reports (ScoreSpec)                 *)
(***************************************************************************)
\* The report holds n >= 1 changes, every one a RemovedField.
OnlyRemovals(r) ==
  /\ Len(r.changes) >= 1
  /\ \A i \in 1..Len(r.changes) : r.changes[i].kind = "REMOVED_FIELD"

Tier(c) ==
  LET containers == {"object", "array"}
      compatible == \/ c.oldType = "null" \/ c.newType = "null"
                    \/ {c.oldType, c.newType} = {"string", "number"}
                    \/ c.oldType = c.newType
  IN  CASE c.kind = "ADDED_FIELD" -> 1
        [] c.kind = "REMOVED_FIELD" -> 5
        [] OTHER -> IF c.oldType \in containers \/ c.newType \in containers THEN 4
                    ELSE IF compatible THEN 2
                    ELSE 3

\* The report that holds the one change c.
Single(c) == [changes |-> <<c>>, summary |-> summarize(<<c>>)]

\* C12: single-change scores rise strictly with severity: whenever a report
\* of one change has been scored, every one-change report of a higher tier
\* scores strictly more (AddedField < compatible < incompatible < structural
\* TypeChanged < RemovedField).
C12_MonotoneSeverity ==
  Scored /\ Len(report.changes) = 1 =>
    \A c \in ChangeShapes :
      Tier(c) > Tier(report.changes[1]) => scoreDiff(Single(c)) > score

\* An incompatible type change alone has been scored (39), with tiers below
\* and above it to compare with.
C12_Witness ==
  /\ Scored
  /\ Len(report.changes) = 1
  /\ report.changes[1].kind = "TYPE_CHANGED"
  /\ Tier(report.changes[1]) = 3
  /\ score = 39

(***************************************************************************)
(* C13, C14: the scenarios (Spec)                                          *)
(***************************************************************************)
\* The comparison of the given pair of documents has been analyzed.
AnalyzedOn(pair) == Analyzed /\ oldJson = pair[1] /\ newJson = pair[2]

\* Scenario 4's report: exactly one TYPE_CHANGED at meta, boolean -> object,
\* worth 35 points, and nothing for meta.active.
Scenario4Report ==
  /\ report.changes = << TypeChanged("meta", <<KeySeg("meta")>>, "boolean", "object") >>
  /\ \A i \in 1..Len(report.changes) : report.changes[i].path # "meta.active"
  /\ TableTotal(report.changes) = 35

\* C13 as stated: old = {"meta": false}, new = {"meta": {"active": true}}
\* yields exactly [TypeChanged meta boolean -> object], no entry for
\* meta.active, 35 points, and scoreDiff returns 51.
C13_Scenario4Scores51 ==
  AnalyzedOn(Scenario4) => Scenario4Report /\ score = 51

\* C13 amended: the same report and the same 35 points, and scoreDiff
\* returns 50.
C13_Scenario4Scores50 ==
  AnalyzedOn(Scenario4) => Scenario4Report /\ score = 50

\* Scenario 4 has been analyzed and scored.
C13_Witness ==
  /\ AnalyzedOn(Scenario4)
  /\ Len(report.changes) = 1
  /\ score = 50

\* C14: scenarios 1, 2, 3 and 5 give the stated reports and scores:
\* [AddedField name: string] scores 10; [RemovedField flag: boolean] scores
\* 55; [TypeChanged count number -> string] scores 26; [RemovedField b,
\* RemovedField c, AddedField d], in that order, weighs 85 points and
\* scores 82.  One 40-point change scores 55, two score 80, five score 98.
C14_Scenarios ==
  /\ AnalyzedOn(Scenario1) =>
       /\ report.changes = << AddedField("name", <<KeySeg("name")>>, "string") >>
       /\ score = 10
  /\ AnalyzedOn(Scenario2) =>
       /\ report.changes = << RemovedField("flag", <<KeySeg("flag")>>, "boolean") >>
       /\ TableTotal(report.changes) = 40
       /\ score = 55
  /\ AnalyzedOn(Scenario3) =>
       /\ report.changes = << TypeChanged("count", <<KeySeg("count")>>, "number", "string") >>
       /\ score = 26
  /\ AnalyzedOn(Scenario5) =>
       /\ report.changes = << RemovedField("b", <<KeySeg("b")>>, "number"),
                              RemovedField("c", <<KeySeg("c")>>, "boolean"),
                              AddedField("d", <<KeySeg("d")>>, "number") >>
       /\ TableTotal(report.changes) = 85
       /\ score = 82
  /\ AnalyzedOn(TwoRemoved) =>
       /\ Len(report.changes) = 2
       /\ TableTotal(report.changes) = 80
       /\ score = 80
  /\ AnalyzedOn(FiveRemoved) =>
       /\ Len(report.changes) = 5
       /\ TableTotal(report.changes) = 200
       /\ score = 98

\* Scenario 5 has been analyzed: three changes, score 82.
C14_Witness ==
  /\ AnalyzedOn(Scenario5)
  /\ Len(report.changes) = 3
  /\ score = 82

\* The report r without its last change.
Front(r) ==
  LET cs == SubSeq(r.changes, 1, Len(r.changes) - 1)
  IN  [changes |-> cs, summary |-> summarize(cs)]

LastChange(r) == r.changes[Len(r.changes)]

\* Every change of the report is the same change.
Homogeneous(r) == \A i \in 1..Len(r.changes) : r.changes[i] = r.changes[1]

\* C15: diminishing marginal risk.  Appending the Nth identical change
\* (N >= 2) raises the score by strictly less than the first such change
\* raised it from 0, for every kind of change; the same holds when the
\* change is appended to a report of other changes; and appending a change
\* never lowers the score.
C15_DiminishingMarginalRisk ==
  Scored /\ Len(report.changes) >= 1 =>
    /\ score >= scoreDiff(Front(report))
    /\ Len(report.changes) >= 2 =>
         score - scoreDiff(Front(report)) < scoreDiff(Single(LastChange(report))) - 0

\* A fourth identical type change has been appended and scored, and it did
\* raise the score.
C15_Witness ==
  /\ Scored
  /\ Len(report.changes) = 4
  /\ Homogeneous(report)
  /\ report.changes[1].kind = "TYPE_CHANGED"
  /\ score > scoreDiff(Front(report))

\* The changes of r in reverse order, and rotated by one place.
Reversed(r) ==
  [r EXCEPT !.changes = [i \in 1..Len(r.changes) |-> r.changes[Len(r.changes) + 1 - i]]]

Rotated(r) ==
  [r EXCEPT !.changes = IF r.changes = <<>> THEN <<>>
                         ELSE Append(Tail(r.changes), Head(r.changes))]

\* The report r with the path of its i-th change replaced by f[i].
Repathed(r, f) ==
  [r EXCEPT !.changes = [i \in 1..Len(r.changes) |-> [r.changes[i] EXCEPT !.path = f[i]]]]

\* Other paths for the changes of a report: all empty, all the same key, one
\* path per position.
OtherPaths(n) ==
  { [i \in 1..n |-> ""], [i \in 1..n |-> "a.b[0]"], [i \in 1..n |-> "k" \o ToString(i)] }

\* Other summaries, consistent with no change list at all.
OtherSummaries ==
  { [added |-> 0, removed |-> 0, risky |-> 0], [added |-> 7, removed |-> 9, risky |-> 3] }

\* C16: scoreDiff is unchanged by reordering the changes, by replacing the
\* path of any change and by altering report.summary: it depends only on the
\* multiset of (kind, oldType, newType), which those rewritings keep.
C16_PathAndOrderIndependent ==
  Scored =>
    /\ scoreDiff(Reversed(report)) = score
    /\ scoreDiff(Rotated(report)) = score
    /\ \A f \in OtherPaths(Len(report.changes)) : scoreDiff(Repathed(report, f)) = score
    /\ \A s \in OtherSummaries : scoreDiff([report EXCEPT !.summary = s]) = score

\* A report of two changes of different weight has been scored; its
\* reversal is another report.
C16_Witness ==
  /\ Scored
  /\ Len(report.changes) = 2
  /\ report.changes[1].kind = "REMOVED_FIELD"
  /\ report.changes[2].kind = "ADDED_FIELD"
  /\ Reversed(report) # report

(***************************************************************************)
(* C18: key order (Spec)                                                   *)
(***************************************************************************)
RECURSIVE Products(_)
\* The sequences that take their i-th element from the i-th set.
Products(sets) ==
  IF sets = <<>> THEN {<<>>}
  ELSE { <<x>> \o rest : x \in Head(sets), rest \in Products(Tail(sets)) }

RECURSIVE KeyOrders(_)
\* The values that differ from v by the insertion order of the keys of any
\* of its objects, v itself included.
KeyOrders(v) ==
  CASE v.tag = "Array" ->
         { JArr(xs) : xs \in Products([i \in 1..Len(v.items) |-> KeyOrders(v.items[i])]) }
    [] v.tag = "Object" ->
         LET n == Len(v.entries)
             vals == Products([i \in 1..n |-> KeyOrders(v.entries[i].val)])
         IN  { JObj([i \in 1..n |-> [key |-> v.entries[p[i]].key, val |-> xs[p[i]]]]) :
                 p \in Permutations(1..n), xs \in vals }
    [] OTHER -> {v}

\* The changes of a report as a set of (kind, path, oldType, newType).
ChangeSet(r) ==
  { <<r.changes[i].kind, r.changes[i].path, r.changes[i].oldType, r.changes[i].newType>> :
      i \in 1..Len(r.changes) }

\* C18: permuting the key insertion order of any object inside old or new
\* leaves the set of changes (kind, path, types), the summary counts and the
\* score unchanged.
C18_KeyOrderInsignificant ==
  Analyzed =>
    \A old \in KeyOrders(oldJson), new \in KeyOrders(newJson) :
      LET r == diffSchemas(old, new)
      IN  /\ ChangeSet(r) = ChangeSet(report)
          /\ r.summary = report.summary
          /\ scoreDiff(r) = score

\* A comparison has been analyzed of which another key order lists the same
\* changes in another order.
C18_Witness ==
  /\ Analyzed
  /\ Len(report.changes) >= 2
  /\ \E old \in KeyOrders(oldJson), new \in KeyOrders(newJson) :
       diffSchemas(old, new).changes # report.changes

(***************************************************************************)
(* Renderer paths (src/app/page.tsx, renderJsonWithHighlights)             *)
(***************************************************************************)
\* const keyPath = currentPath ? `${currentPath}.${key}` : key
rendererKeyPath(currentPath, key) ==
  IF currentPath # "" THEN currentPath \o "." \o key ELSE key

\* `${currentPath}[${i}]`
rendererItemPath(currentPath, i) == currentPath \o "[" \o ToString(i) \o "]"

\* report.changes.find(c => c.path === path): the position of the first
\* change with that path, 0 for undefined.
findChange(r, path) ==
  IF \E i \in 1..Len(r.changes) : r.changes[i].path = path
    THEN CHOOSE i \in 1..Len(r.changes) :
           /\ r.changes[i].path = path
           /\ \A j \in 1..(i - 1) : r.changes[j].path # path
    ELSE 0

RECURSIVE renderJsonWithHighlights(_, _, _)
\* The lookups of one rendering of obj: the path computed at every value of
\* the tree, with the place loc of that value.
renderJsonWithHighlights(obj, currentPath, loc) ==
  {[loc |-> loc, path |-> currentPath]} \cup
  CASE obj.tag = "Array" ->
         UNION { renderJsonWithHighlights(obj.items[i],
                                          rendererItemPath(currentPath, i - 1),
                                          Append(loc, IndexSeg(i - 1)))
                 : i \in 1..Len(obj.items) }
    [] obj.tag = "Object" ->
         UNION { renderJsonWithHighlights(obj.entries[i].val,
                                          rendererKeyPath(currentPath, obj.entries[i].key),
                                          Append(loc, KeySeg(obj.entries[i].key)))
                 : i \in 1..Len(obj.entries) }
    [] OTHER -> {}

(***************************************************************************)
(* C19: paths and the renderer's lookup (Spec)                             *)
(***************************************************************************)
\* The documents in which the place of a change exists: old for a removal,
\* new for an addition, both for a type change.
SidesOf(c) ==
  CASE c.kind = "REMOVED_FIELD" -> {oldJson}
    [] c.kind = "ADDED_FIELD" -> {newJson}
    [] OTHER -> {oldJson, newJson}

\* The path of a change is the path the renderer computes at the place of
\* the change, in each document that has the place.
RendererComputesPath(c) ==
  \A doc \in SidesOf(c) :
    \E v \in renderJsonWithHighlights(doc, "", <<>>) : v.loc = c.loc /\ v.path = c.path

\* The renderer's lookup by the path of c returns c, or a change with the
\* same kind and types.
FoundByLookup(r, c) ==
  LET i == findChange(r, c.path)
  IN  /\ i # 0
      /\ r.changes[i].kind = c.kind
      /\ r.changes[i].oldType = c.oldType
      /\ r.changes[i].newType = c.newType

\* The format of the paths of a report: ".key" appended for an object key
\* and "[i]" for an array index, no leading dot for a top-level key, "" for
\* the root; and each path is the path the renderer computes for the place.
PathsAsRendered(r) ==
  \A i \in 1..Len(r.changes) :
    /\ r.changes[i].path = PathOf(r.changes[i].loc)
    /\ RendererComputesPath(r.changes[i])

\* C19: paths are built by appending ".key" for an object key and "[i]" for
\* an array index, with no leading dot for a top-level key and "" for the
\* root; the paths of the report are exactly the paths the renderer computes
\* for the same places, and so every change is found by the renderer's exact
\* string lookup.
C19_EveryChangeFound ==
  Analyzed =>
    /\ PathsAsRendered(report)
    /\ \A i \in 1..Len(report.changes) : FoundByLookup(report, report.changes[i])

(***************************************************************************)
(* The consumers of the score (src/app/page.tsx, src/lib/export.ts).       *)
(* Their argument score: number | null is Score(n) or Nil here.            *)
(***************************************************************************)
Score(n) == [tag |-> "Score", n |-> n]

\* The risk badge of the score card.
badgeRiskLevel(s) ==
  IF s.n < 31 THEN "Low Risk" ELSE IF s.n < 71 THEN "Medium Risk" ELSE "High Risk"

\* The risk level named in the explanation text.
explanationRiskLevel(s) ==
  IF s.n < 31 THEN "Low Risk" ELSE IF s.n < 71 THEN "Medium Risk" ELSE "High Risk"

\* generateCSV: the cell next to "Migration Risk Score".
csvScoreCell(s) == IF s # Nil THEN ToString(s.n) \o "/100" ELSE "N/A"

\* A slip: the Low band of the CSV ends at 31.
csvRiskLevelOffByOne(s) ==
  IF s # Nil
    THEN (IF s.n <= 31 THEN "Low Risk" ELSE IF s.n < 71 THEN "Medium Risk" ELSE "High Risk")
    ELSE "N/A"

\* generateCSV: the cell next to "Risk Level".
csvRiskLevel(s) ==
  IF s # Nil
    THEN (IF s.n < 31 THEN "Low Risk" ELSE IF s.n < 71 THEN "Medium Risk" ELSE "High Risk")
    ELSE "N/A"

\* downloadPDF: the line of the score.
pdfScoreLine(s) ==
  "Migration Risk Score: " \o (IF s # Nil THEN ToString(s.n) ELSE "N/A") \o "/100"

\* downloadPDF: the risk level printed after "Risk Level: ".
pdfRiskLevel(s) ==
  IF s # Nil
    THEN (IF s.n < 31 THEN "Low Risk" ELSE IF s.n < 71 THEN "Medium Risk" ELSE "High Risk")
    ELSE "N/A"

(***************************************************************************)
(* CSV text (src/lib/export.ts).  A text is the sequence of its pieces: a   *)
(* piece is one of the characters ",", "\"" and "\n" (a line break), or a  *)
(* run of characters with none of these three in it.                       *)
(***************************************************************************)
\* The text of a string that holds none of the three characters.
Cell(s) == IF s = "" THEN <<>> ELSE <<s>>

\* value.replace(/"/g, '""')
doubleQuotes(value) ==
  Flatten([i \in 1..Len(value) |-> IF value[i] = "\"" THEN <<"\"", "\"">> ELSE <<value[i]>>])

\* A slip: the cell is wrapped, its quotes are not doubled.
escapeCSVCellNoDoubling(value) ==
  IF \E i \in 1..Len(value) : value[i] \in {",", "\"", "\n"}
    THEN <<"\"">> \o value \o <<"\"">>
  ELSE value

escapeCSVCell(value) ==
  IF \E i \in 1..Len(value) : value[i] \in {",", "\"", "\n"}
    THEN <<"\"">> \o doubleQuotes(value) \o <<"\"">>
  ELSE value

\* change.kind.replace(/_/g, " ")
kindWords(kind) ==
  CASE kind = "REMOVED_FIELD" -> "REMOVED FIELD"
    [] kind = "ADDED_FIELD" -> "ADDED FIELD"
    [] kind = "TYPE_CHANGED" -> "TYPE CHANGED"
    [] OTHER -> kind

\* The data row of one change; its path is spelled in pieces.
csvDataRow(change) ==
  << change.path, Cell(kindWords(change.kind)) >> \o
  ( CASE change.kind = "REMOVED_FIELD" -> << Cell(change.oldType), <<>> >>
      [] change.kind = "ADDED_FIELD" -> << <<>>, Cell(change.newType) >>
      [] change.kind = "TYPE_CHANGED" -> << Cell(change.oldType), Cell(change.newType) >>
      [] OTHER -> << <<>>, <<>> >> )

\* rows.join: the texts of xs with sep between them.
joinWith(xs, sep) ==
  Flatten([i \in 1..Len(xs) |-> IF i = 1 THEN xs[i] ELSE sep \o xs[i]])

\* The rows generateCSV pushes; now is the text of new Date().toLocaleString().
csvRows(r, s, now) ==
  << << Cell("API Schema Migration Analysis Report") >>,
     << Cell("Generated on: ") \o now >>,
     << >>,
     << Cell("Migration Risk Assessment") >>,
     << Cell("Migration Risk Score"), Cell(csvScoreCell(s)) >>,
     << Cell("Risk Level"), Cell(csvRiskLevel(s)) >>,
     << >>,
     << Cell("Summary Statistics") >>,
     << Cell("Added Fields"), Cell(ToString(r.summary.added)) >>,
     << Cell("Removed Fields"), Cell(ToString(r.summary.removed)) >>,
     << Cell("Risky Changes"), Cell(ToString(r.summary.risky)) >>,
     << >>,
     << Cell("Detailed Changes") >>,
     << Cell("Path"), Cell("Change Type"), Cell("Old Type"), Cell("New Type") >> >>
  \o [i \in 1..Len(r.changes) |-> csvDataRow(r.changes[i])]

\* rows.map(row => row.map(cell => escapeCSVCell(String(cell))).join(",")).join("\n")
csvContent(rows) ==
  joinWith([i \in 1..Len(rows) |->
              joinWith([j \in 1..Len(rows[i]) |-> escapeCSVCell(rows[i][j])], <<",">>)],
           <<"\n">>)

\* What new Date().toLocaleString() can look like: with a comma between the
\* date and the time (en-US), or without one.
LocaleDates == { <<"11/4/2026", ",", " 8:04:19 AM">>, <<"4.11.2026 08:04:19">> }

(***************************************************************************)
(* RiskSpec: a report with any score of 0..100, or with none, is shown and *)
(* exported.                                                               *)
(***************************************************************************)
RiskInit ==
  /\ oldJson = Nil
  /\ newJson = Nil
  /\ report = [changes |-> <<>>, summary |-> summarize(<<>>)]
  /\ score \in { Score(n) : n \in 0..100 } \cup {Nil}
  /\ pc = "shown"
  /\ views = NoViews
  /\ PageConstructed /\ served = {}

\* The score card is rendered when report && typeof score === "number".
renderBadge ==
  /\ report # Nil /\ score # Nil
  /\ views.badge = Nil
  /\ views' = [views EXCEPT !.badge = [riskLevel |-> badgeRiskLevel(score)]]
  /\ UNCHANGED <<oldJson, newJson, report, score, pc, pageVars>>

\* And so is the explanation section.
renderExplanation ==
  /\ report # Nil /\ score # Nil
  /\ views.explanation = Nil
  /\ views' = [views EXCEPT !.explanation = [riskLevel |-> explanationRiskLevel(score)]]
  /\ UNCHANGED <<oldJson, newJson, report, score, pc, pageVars>>

generateCSV ==
  /\ report # Nil
  /\ views.csv = Nil
  /\ \E now \in LocaleDates :
       views' = [views EXCEPT !.csv = [score |-> csvScoreCell(score),
                                       riskLevel |-> csvRiskLevel(score),
                                       content |-> csvContent(csvRows(report, score, now))]]
  /\ UNCHANGED <<oldJson, newJson, report, score, pc, pageVars>>

downloadPDF ==
  /\ report # Nil
  /\ views.pdf = Nil
  /\ views' = [views EXCEPT !.pdf = [score |-> pdfScoreLine(score),
                                     riskLevel |-> pdfRiskLevel(score)]]
  /\ UNCHANGED <<oldJson, newJson, report, score, pc, pageVars>>

RiskNext == renderBadge \/ renderExplanation \/ generateCSV \/ downloadPDF

RiskSpec == RiskInit /\ [][RiskNext]_vars

(***************************************************************************)
(* C20: risk bands (RiskSpec)                                              *)
(***************************************************************************)
\* The band of an integer score: Low 0..30, Medium 31..70, High 71..100.
Band(n) ==
  CASE n \in 0..30 -> "Low Risk"
    [] n \in 31..70 -> "Medium Risk"
    [] n \in 71..100 -> "High Risk"

\* C20: every consumer maps the score to the same level, Low for 0..30,
\* Medium for 31..70, High for 71..100: the badge, the explanation text, the
\* CSV export and the PDF export agree on every integer 0..100; a null
\* score is exported as "N/A".
C20_RiskBands ==
  /\ score # Nil =>
       /\ views.badge # Nil => views.badge.riskLevel = Band(score.n)
       /\ views.explanation # Nil => views.explanation.riskLevel = Band(score.n)
       /\ views.csv # Nil =>
            /\ views.csv.riskLevel = Band(score.n)
            /\ views.csv.score = ToString(score.n) \o "/100"
       /\ views.pdf # Nil =>
            /\ views.pdf.riskLevel = Band(score.n)
            /\ views.pdf.score = "Migration Risk Score: " \o ToString(score.n) \o "/100"
  /\ score = Nil =>
       /\ views.badge = Nil /\ views.explanation = Nil
       /\ views.csv # Nil => views.csv.riskLevel = "N/A" /\ views.csv.score = "N/A"
       /\ views.pdf # Nil =>
            /\ views.pdf.riskLevel = "N/A"
            /\ views.pdf.score = "Migration Risk Score: N/A/100"

\* A score on a band edge has been shown and exported by all four consumers.
C20_Witness ==
  /\ score # Nil
  /\ score.n = 31
  /\ views.badge # Nil /\ views.badge.riskLevel = "Medium Risk"
  /\ views.explanation # Nil /\ views.explanation.riskLevel = "Medium Risk"
  /\ views.csv # Nil /\ views.csv.riskLevel = "Medium Risk"
  /\ views.pdf # Nil /\ views.pdf.riskLevel = "Medium Risk"

(***************************************************************************)
(* C21: a removed or added subtree is one change (Spec)                    *)
(***************************************************************************)
RECURSIVE ValueAtLoc(_, _)
\* The value of the document at a place that exists in it.
ValueAtLoc(doc, loc) ==
  IF loc = <<>> THEN doc
  ELSE IF Head(loc).seg = "key" THEN ValueAtLoc(Lookup(doc, Head(loc).key), Tail(loc))
  ELSE ValueAtLoc(doc.items[Head(loc).index + 1], Tail(loc))

\* The places present on one side only: below a compared place where both
\* sides are objects the keys of one side alone, where both are arrays the
\* trailing positions of the longer one.  side is "old" or "new".
OneSided(side) ==
  UNION { LET mine == IF side = "old" THEN v.old ELSE v.new
              other == IF side = "old" THEN v.new ELSE v.old
          IN  IF v.old.tag = "Object" /\ v.new.tag = "Object"
                THEN { Append(v.loc, KeySeg(k)) : k \in KeySet(mine) \ KeySet(other) }
              ELSE IF v.old.tag = "Array" /\ v.new.tag = "Array"
                THEN { Append(v.loc, IndexSeg(i)) :
                         i \in Len(other.items)..(Len(mine.items) - 1) }
              ELSE {}
          : v \in Visited(oldJson, newJson, <<>>) }

\* The changes made strictly below a place.
ChangesBelow(r, loc) ==
  { i \in 1..Len(r.changes) : r.changes[i].loc # loc /\ IsPrefix(loc, r.changes[i].loc) }

\* C21: a key, or a trailing array position, present on one side only yields
\* exactly one change at its place, a RemovedField (AddedField) with the
\* place's path and the classification of the removed (added) value, and no
\* change below it, however large the subtree; it weighs exactly 40 (5)
\* points.
C21_SubtreeIsOneChange ==
  Analyzed =>
    /\ \A l \in OneSided("old") :
         /\ Cardinality(ChangesAt(report, l)) = 1
         /\ ChangesBelow(report, l) = {}
         /\ \A i \in ChangesAt(report, l) :
              /\ report.changes[i] = RemovedField(PathOf(l), l, LabelOf(ValueAtLoc(oldJson, l)))
              /\ changePoints(report.changes[i]) = 40
    /\ \A l \in OneSided("new") :
         /\ Cardinality(ChangesAt(report, l)) = 1
         /\ ChangesBelow(report, l) = {}
         /\ \A i \in ChangesAt(report, l) :
              /\ report.changes[i] = AddedField(PathOf(l), l, LabelOf(ValueAtLoc(newJson, l)))
              /\ changePoints(report.changes[i]) = 5
    /\ \A i \in 1..Len(report.changes) :
         /\ report.changes[i].kind = "REMOVED_FIELD" => report.changes[i].loc \in OneSided("old")
         /\ report.changes[i].kind = "ADDED_FIELD" => report.changes[i].loc \in OneSided("new")

\* A key whose value is a container with something in it has been removed:
\* one change, 40 points, score 55.
C21_Witness ==
  /\ Analyzed
  /\ Len(report.changes) = 1
  /\ report.changes[1].kind = "REMOVED_FIELD"
  /\ NonEmptyContainer(ValueAtLoc(oldJson, report.changes[1].loc))
  /\ score = 55

(***************************************************************************)
(* CsvSpec: hand-built reports, whose paths hold commas, quotes and line   *)
(* breaks, are exported to CSV.                                            *)
(***************************************************************************)
\* The reports of no, one and two changes: one change of each kind at every
\* path of at most two of the pieces a path is spelled with.
CsvReports ==
  LET PathPieces == {"a", ",", "\"", "\n"}
      CsvPaths ==
        {<<>>} \cup { <<x>> : x \in PathPieces }
               \cup { <<x, y>> : x \in PathPieces, y \in PathPieces }
      CsvChanges ==
        UNION { { RemovedField(p, <<>>, "string"),
                  AddedField(p, <<>>, "number"),
                  TypeChanged(p, <<>>, "boolean", "object") } : p \in CsvPaths }
  IN  { [changes |-> cs, summary |-> summarize(cs)] :
          cs \in {<<>>} \cup { <<c>> : c \in CsvChanges }
                        \cup { <<c, d>> : c \in CsvChanges, d \in CsvChanges } }

CsvInit ==
  /\ oldJson = Nil
  /\ newJson = Nil
  /\ report \in CsvReports
  /\ score \in {Nil, Score(55)}
  /\ pc = "shown"
  /\ views = NoViews
  /\ PageConstructed /\ served = {}

CsvNext == generateCSV

CsvSpec == CsvInit /\ [][CsvNext]_vars

(***************************************************************************)
(* C22: the CSV export (CsvSpec)                                           *)
(***************************************************************************)
\* A CSV reader.  A comma or a line break separates when it stands outside
\* quotes, that is after an even number of quote characters; a cell written
\* in quotes holds what stands between them, with two quotes for one.
Outside(text, i) == Cardinality({ j \in 1..(i - 1) : text[j] = "\"" }) % 2 = 0

\* The elements of a set of numbers in rising order.
Rising(S) ==
  [k \in 1..Cardinality(S) |-> CHOOSE x \in S : Cardinality({ y \in S : y < x }) = k - 1]

\* The parts of the text between the separators sep that stand outside quotes.
SplitOutside(text, sep) ==
  LET cuts == Rising({ i \in 1..Len(text) : text[i] = sep /\ Outside(text, i) })
      n == Len(cuts)
      from(k) == IF k = 1 THEN 1 ELSE cuts[k - 1] + 1
      to(k) == IF k = n + 1 THEN Len(text) ELSE cuts[k] - 1
  IN  [k \in 1..(n + 1) |-> SubSeq(text, from(k), to(k))]

\* What a written cell holds.
Unquoted(cell) ==
  IF Len(cell) >= 2 /\ cell[1] = "\"" /\ cell[Len(cell)] = "\""
    THEN LET inner == SubSeq(cell, 2, Len(cell) - 1)
             kept == Rising({ j \in 1..Len(inner) :
                               inner[j] = "\"" => ~Outside(inner, j + 1) })
         IN  [k \in 1..Len(kept) |-> inner[kept[k]]]
  ELSE cell

\* The rows of cells of a text.
CsvParse(text) ==
  LET lines == SplitOutside(text, "\n")
  IN  [i \in 1..Len(lines) |->
         LET cells == SplitOutside(lines[i], ",")
         IN  [j \in 1..Len(cells) |-> Unquoted(cells[j])]]

\* The kind of a change with its underscore replaced by a space.
KindInWords(c) ==
  IF c.kind = "REMOVED_FIELD" THEN <<"REMOVED FIELD">>
  ELSE IF c.kind = "ADDED_FIELD" THEN <<"ADDED FIELD">>
  ELSE <<"TYPE CHANGED">>

\* The type of a change as a cell: empty where the change has none.
TypeCell(t) == IF t = "" THEN <<>> ELSE <<t>>

\* C22: read back as CSV, the export holds a header block of 14 rows ending
\* with Path, Change Type, Old Type, New Type, then exactly one row of four
\* cells per change, in report order: the path, the kind with its
\* underscore replaced by a space, oldType (empty for ADDED_FIELD) and
\* newType (empty for REMOVED_FIELD); the summary rows carry
\* report.summary.added, removed and risky; a path with a comma, a quote or
\* a line break still occupies one cell.
C22_CsvFaithful ==
  views.csv # Nil =>
    LET rows == CsvParse(views.csv.content)
    IN  /\ Len(rows) = 14 + Len(report.changes)
        /\ rows[9] = << <<"Added Fields">>, <<ToString(report.summary.added)>> >>
        /\ rows[10] = << <<"Removed Fields">>, <<ToString(report.summary.removed)>> >>
        /\ rows[11] = << <<"Risky Changes">>, <<ToString(report.summary.risky)>> >>
        /\ rows[14] = << <<"Path">>, <<"Change Type">>, <<"Old Type">>, <<"New Type">> >>
        /\ \A i \in 1..Len(report.changes) :
             LET c == report.changes[i]
             IN  rows[14 + i] = << c.path, KindInWords(c),
                                   IF c.kind = "ADDED_FIELD" THEN <<>> ELSE TypeCell(c.oldType),
                                   IF c.kind = "REMOVED_FIELD" THEN <<>> ELSE TypeCell(c.newType) >>

\* A report of two changes has been exported, the path of the first with a
\* quote and a comma in it, the path of the second with a line break.
C22_Witness ==
  /\ views.csv # Nil
  /\ Len(report.changes) = 2
  /\ report.changes[1].path = <<"\"", ",">>
  /\ report.changes[1].kind = "ADDED_FIELD"
  /\ report.changes[2].path = <<"a", "\n">>
  /\ report.changes[2].kind = "REMOVED_FIELD"

(***************************************************************************)
(* The page (src/unnamed/part_005, Page; src/app/page.tsx holds the same   *)
(* analyze and loaders without the AI explanation and the pagination).     *)
(* A handler runs from one await to the next in one step, and the state    *)
(* updates of that run take effect together.                               *)
(***************************************************************************)
\* JSON roots a source can deliver: the truthy ones and the falsy ones.
TruthyRoots == {JObj(<<>>), JArr(<<>>), Scenario1[1], Scenario1[2]}
FalsyRoots == {JNull, JNum(0), JBool(FALSE), JStr("")}

\* An answer of loadJsonFromFile / loadJsonFromUrl: a parsed value, or a
\* rejection with its message: `Fetch ${r.status}` for a non-OK response,
\* the message of the SyntaxError of a body that is not JSON, and an error
\* without a message.
Loaded(v) == [ok |-> TRUE, value |-> v]
Rejected(m) == [ok |-> FALSE, message |-> m]

Rejections == { Rejected("Fetch 404"), Rejected("Unexpected token < in JSON"), Rejected("") }

Answers == { Loaded(v) : v \in TruthyRoots \cup FalsyRoots } \cup Rejections

\* The URLs of the two loaders, for OLD and NEW.
SampleUrls == <<"/samples/v1.json", "/samples/v2.json">>
SampleApiUrls == <<"https://api.github.com/users/octocat", "https://api.github.com/users/github">>

\* The error line: null or a message.
Message(m) == [message |-> m]

\* A slip: the message of the error is shown as it is.
caughtMessageRaw(m) == Message(m)

\* catch(e){ setError(e.message || "Analysis failed") }
caughtMessage(m) == Message(IF m # "" THEN m ELSE "Analysis failed")

\* !x for what analyze holds in old and new_: no source at all (null), or a
\* falsy JSON value.
isFalsy(x) == x = Nil \/ x \in FalsyRoots

\* The catch and finally of analyze after a throw with message m.
analyzeFails(m) ==
  /\ error' = caughtMessage(m)
  /\ loading' = FALSE
  /\ call' = Nil
  /\ UNCHANGED <<oldJson, newJson, report, score,
                 searchQuery, selectedChangeType, currentPage, itemsPerPage>>

\* A slip: the results are cleared when the analysis fails.
analyzeChecksClearing(old, new) ==
  IF isFalsy(old) \/ isFalsy(new)
    THEN /\ error' = caughtMessage("Provide both OLD and NEW (file or URL).")
         /\ loading' = FALSE
         /\ call' = Nil
         /\ oldJson' = Nil /\ newJson' = Nil /\ report' = Nil /\ score' = Nil
         /\ UNCHANGED <<searchQuery, selectedChangeType, currentPage, itemsPerPage>>
  ELSE /\ oldJson' = old /\ newJson' = new
       /\ LET diff == diffSchemas(old, new)
          IN  report' = diff /\ score' = Score(scoreDiff(diff))
       /\ searchQuery' = "" /\ selectedChangeType' = "ALL"
       /\ currentPage' = 1 /\ itemsPerPage' = 10
       /\ loading' = FALSE
       /\ call' = Nil
       /\ UNCHANGED error

\* analyze from the test of old and new_ to its end.
analyzeChecks(old, new) ==
  IF isFalsy(old) \/ isFalsy(new)
    THEN analyzeFails("Provide both OLD and NEW (file or URL).")
  ELSE /\ oldJson' = old /\ newJson' = new
       /\ LET diff == diffSchemas(old, new)
          IN  report' = diff /\ score' = Score(scoreDiff(diff))
       /\ searchQuery' = "" /\ selectedChangeType' = "ALL"
       /\ currentPage' = 1 /\ itemsPerPage' = 10
       /\ loading' = FALSE
       /\ call' = Nil
       /\ UNCHANGED error

\* The button "Analyze APIs" (disabled while loading): analyze up to its
\* first await.  Without an OLD source old is null and the NEW source is
\* loaded first; without either, the test throws in the same run.
analyzeCall ==
  /\ ~loading
  /\ IF oldUrl # ""
       THEN /\ call' = [awaits |-> "old", old |-> Nil, newUrl |-> newUrl]
            /\ error' = Nil /\ loading' = TRUE
            /\ UNCHANGED <<oldJson, newJson, report, score,
                           searchQuery, selectedChangeType, currentPage, itemsPerPage>>
     ELSE IF newUrl # ""
       THEN /\ call' = [awaits |-> "new", old |-> Nil, newUrl |-> newUrl]
            /\ error' = Nil /\ loading' = TRUE
            /\ UNCHANGED <<oldJson, newJson, report, score,
                           searchQuery, selectedChangeType, currentPage, itemsPerPage>>
     ELSE analyzeChecks(Nil, Nil)
  /\ UNCHANGED <<pc, views, oldUrl, newUrl, served, ragOutput, ragError, ragLoading, ragCalls>>

\* The OLD source has answered.
analyzeOldSettled ==
  /\ call # Nil /\ call.awaits = "old"
  /\ \E a \in served :
       IF ~a.ok THEN analyzeFails(a.message)
       ELSE IF call.newUrl # ""
         THEN /\ call' = [call EXCEPT !.awaits = "new", !.old = a.value]
              /\ UNCHANGED <<error, loading, oldJson, newJson, report, score,
                             searchQuery, selectedChangeType, currentPage, itemsPerPage>>
       ELSE analyzeChecks(a.value, Nil)
  /\ UNCHANGED <<pc, views, oldUrl, newUrl, served, ragOutput, ragError, ragLoading, ragCalls>>

\* The NEW source has answered.
analyzeNewSettled ==
  /\ call # Nil /\ call.awaits = "new"
  /\ \E a \in served :
       IF ~a.ok THEN analyzeFails(a.message)
       ELSE analyzeChecks(call.old, a.value)
  /\ UNCHANGED <<pc, views, oldUrl, newUrl, served, ragOutput, ragError, ragLoading, ragCalls>>

\* The button "Load Samples".
loadSamples ==
  /\ oldUrl' = SampleUrls[1] /\ newUrl' = SampleUrls[2]
  /\ ragOutput' = Nil /\ ragError' = Nil /\ ragLoading' = FALSE
  /\ UNCHANGED <<oldJson, newJson, report, score, pc, views, error, loading, call, served,
                 searchQuery, selectedChangeType, currentPage, itemsPerPage, ragCalls>>

\* A slip: the score of the previous analysis is left in place.
loadSampleFromAPIKeepsScore ==
  /\ error' = Nil
  /\ ragOutput' = Nil /\ ragError' = Nil /\ ragLoading' = FALSE
  /\ oldUrl' = SampleApiUrls[1] /\ newUrl' = SampleApiUrls[2]
  /\ oldJson' = Nil /\ newJson' = Nil /\ report' = Nil
  /\ UNCHANGED <<score, pc, views, loading, call, served,
                 searchQuery, selectedChangeType, currentPage, itemsPerPage, ragCalls>>

\* The button "Load Sample from API".
loadSampleFromAPI ==
  /\ error' = Nil
  /\ ragOutput' = Nil /\ ragError' = Nil /\ ragLoading' = FALSE
  /\ oldUrl' = SampleApiUrls[1] /\ newUrl' = SampleApiUrls[2]
  /\ oldJson' = Nil /\ newJson' = Nil /\ report' = Nil /\ score' = Nil
  /\ UNCHANGED <<pc, views, loading, call, served,
                 searchQuery, selectedChangeType, currentPage, itemsPerPage, ragCalls>>

\* The URL fields: a URL is typed or deleted.
changeUrl ==
  /\ \/ oldUrl' \in {"", "https://example.com/v1.json"} /\ UNCHANGED newUrl
     \/ newUrl' \in {"", "https://example.com/v2.json"} /\ UNCHANGED oldUrl
  /\ UNCHANGED <<oldJson, newJson, report, score, pc, views, error, loading, call, served,
                 searchQuery, selectedChangeType, currentPage, itemsPerPage,
                 ragOutput, ragError, ragLoading, ragCalls>>

\* The filter buttons of the change list, shown with a report.
selectChangeType ==
  /\ report # Nil
  /\ selectedChangeType' \in {"ALL", "REMOVED_FIELD", "ADDED_FIELD", "TYPE_CHANGED"}
  /\ currentPage' = 1
  /\ UNCHANGED <<oldJson, newJson, report, score, pc, views, oldUrl, newUrl, error, loading,
                 call, served, searchQuery, itemsPerPage,
                 ragOutput, ragError, ragLoading, ragCalls>>

(***************************************************************************)
(* PageSpec: sources are chosen, analysed and analysed again; every        *)
(* answer of the network is possible.                                      *)
(***************************************************************************)
PageInit ==
  /\ oldJson = Nil /\ newJson = Nil /\ report = Nil /\ score = Nil
  /\ pc = "page"
  /\ views = NoViews
  /\ PageConstructed
  /\ served = Answers

PageNext ==
  \/ analyzeCall \/ analyzeOldSettled \/ analyzeNewSettled
  \/ loadSamples \/ loadSampleFromAPI \/ changeUrl \/ selectChangeType

PageSpec == PageInit /\ [][PageNext]_vars

(***************************************************************************)
(* Claims about analyze as the page runs it.                               *)
(***************************************************************************)
\* A step of the handler analyze, the step that ends a call, and what the
\* claims call the results and the filters.
AnalyzeStep == analyzeCall \/ analyzeOldSettled \/ analyzeNewSettled

AnalyzeEnds == AnalyzeStep /\ call' = Nil /\ ~loading'

Results == <<oldJson, newJson, report, score>>

Filters == <<searchQuery, selectedChangeType, currentPage, itemsPerPage>>

\* C23: a failed analysis changes no results.  A call of analyze that ends
\* with an error ends with a non-empty message and leaves oldJson, newJson,
\* report, score and the filters as they were; and a step of analyze that
\* changes any of the results is the end of a call that leaves no error.
C23_FailedAnalysisKeepsResults ==
  [][ /\ (AnalyzeEnds /\ error' # Nil) =>
            /\ error'.message # ""
            /\ UNCHANGED Results
            /\ UNCHANGED Filters
      /\ (AnalyzeStep /\ Results' # Results) => (AnalyzeEnds /\ error' = Nil)
    ]_vars

\* C23 witness: an analysis has failed with results of an earlier analysis on
\* screen and a filter chosen, and they are still there.
C23_Witness ==
  /\ error # Nil /\ ~loading
  /\ report # Nil /\ report.changes # <<>>
  /\ selectedChangeType = "ADDED_FIELD"

\* The step in which the NEW source delivers the value n to a call that
\* holds the value o of the OLD source.
BothLoad(o, n) ==
  /\ call # Nil /\ call.awaits = "new" /\ call.old = o
  /\ Loaded(n) \in served
  /\ analyzeNewSettled
  /\ analyzeChecks(o, n)

\* C26: every successfully loaded pair is analysed.  Whatever two JSON
\* values the sources deliver, the call stores them with their report and
\* its score and leaves error null.
C26_EveryLoadedPairAnalysed ==
  [][ \A o, n \in TruthyRoots \cup FalsyRoots :
        BothLoad(o, n) =>
          /\ oldJson' = o /\ newJson' = n
          /\ report' = diffSchemas(o, n)
          /\ score' = Score(scoreDiff(report'))
          /\ error' = Nil
    ]_vars

\* C27: displayed results are always mutually consistent.  report and score
\* are both null or both set; when set, oldJson and newJson are set, report
\* is the diff of the two and score is its score.
C27_ResultsConsistent ==
  /\ (report = Nil) <=> (score = Nil)
  /\ report # Nil =>
       /\ oldJson # Nil /\ newJson # Nil
       /\ report = diffSchemas(oldJson, newJson)
       /\ score = Score(scoreDiff(report))

\* C27 witness: results of an earlier analysis are on screen, with changes,
\* while the next analysis is in flight.
C27_Witness ==
  /\ report # Nil /\ report.changes # <<>>
  /\ loading /\ call # Nil /\ call.awaits = "new"
  /\ oldUrl = SampleApiUrls[1]

(***************************************************************************)
(* The AI explanation (src/unnamed/part_005, analyzeWithRAG).  ragCalls    *)
(* holds the calls of analyzeWithRAG that are waiting at an await: where   *)
(* each waits, how its ingest attempt ended, and the report its closure    *)
(* captured.  A request is in flight while a call waits for its fetch.     *)
(***************************************************************************)
\* At most this many calls of analyzeWithRAG wait at a time.
MaxRagCalls == 2

\* What a rejected fetch and a rejected or unusable response.json() throw:
\* a TypeError of fetch, a SyntaxError of a body that is not JSON, and an
\* error without a message.
RagThrown == {"Failed to fetch", "Unexpected token < in JSON", ""}

\* Bodies the generate endpoint answers with.
RagResults ==
  { [ok |-> FALSE, msg |-> "Model unavailable"], [ok |-> FALSE, msg |-> ""],
    [ok |-> TRUE, answer |-> "## Why\n- The API was extended."], [ok |-> TRUE, answer |-> ""] }

\* ragOutput: the text on screen; from is the report whose changes were
\* sent in the generate request that produced it.
Explanation(text, r) == [text |-> text, from |-> r]

\* A call of analyzeWithRAG waiting at an await.
RagCall(id, at, ingest, r) == [id |-> id, at |-> at, ingest |-> ingest, report |-> r]

\* A slip: a failed ingest ends the call in the outer catch.
ingestFailedAborts(c, m) ==
  /\ ragCalls' = ragCalls \ {c}
  /\ ragError' = Message(IF m # "" THEN m ELSE "RAG analysis failed")
  /\ ragLoading' = FALSE
  /\ UNCHANGED ragOutput

\* catch (e) { console.warn(...) } of the ingest step, then the generate
\* request is sent.
ingestFailedContinues(c, m) ==
  /\ ragCalls' = (ragCalls \ {c}) \cup {RagCall(c.id, "generateFetch", "failed", c.report)}
  /\ UNCHANGED <<ragOutput, ragError, ragLoading>>

\* analyzeWithRAG up to its first await: the guard, the three setters, and
\* the ingest request.
analyzeWithRAG ==
  /\ IF report = Nil \/ isFalsy(oldJson) \/ isFalsy(newJson)
       THEN /\ ragError' = Message("No diff report available. Please run analysis first.")
            /\ UNCHANGED <<ragOutput, ragLoading, ragCalls>>
     ELSE /\ Cardinality(ragCalls) < MaxRagCalls
          /\ ragLoading' = TRUE /\ ragError' = Nil /\ ragOutput' = Nil
          /\ LET free == (1..MaxRagCalls) \ { c.id : c \in ragCalls }
                 id == CHOOSE i \in free : \A j \in free : i <= j
             IN  ragCalls' = ragCalls \cup {RagCall(id, "ingestFetch", "pending", report)}
  /\ UNCHANGED <<oldJson, newJson, report, score, pc, views, oldUrl, newUrl, error, loading,
                 call, served, searchQuery, selectedChangeType, currentPage, itemsPerPage>>

\* The button "Explain Changes with AI", in the report section.
clickExplain ==
  /\ report # Nil /\ ~ragLoading
  /\ analyzeWithRAG

\* The ingest fetch has settled: with a response, whose body is read next,
\* or with a rejection.
ragIngestFetchSettled ==
  /\ \E c \in ragCalls :
       /\ c.at = "ingestFetch"
       /\ \/ /\ ragCalls' = (ragCalls \ {c}) \cup {RagCall(c.id, "ingestJson", "pending", c.report)}
             /\ UNCHANGED <<ragOutput, ragError, ragLoading>>
          \/ \E m \in RagThrown : ingestFailedContinues(c, m)
  /\ UNCHANGED <<oldJson, newJson, report, score, pc, views, oldUrl, newUrl, error, loading,
                 call, served, searchQuery, selectedChangeType, currentPage, itemsPerPage>>

\* ingestResponse.json() has settled: the body was JSON or it was not; the
\* generate request is sent.
ragIngestJsonSettled ==
  /\ \E c \in ragCalls :
       /\ c.at = "ingestJson"
       /\ \/ /\ ragCalls' = (ragCalls \ {c}) \cup {RagCall(c.id, "generateFetch", "done", c.report)}
             /\ UNCHANGED <<ragOutput, ragError, ragLoading>>
          \/ \E m \in RagThrown : ingestFailedContinues(c, m)
  /\ UNCHANGED <<oldJson, newJson, report, score, pc, views, oldUrl, newUrl, error, loading,
                 call, served, searchQuery, selectedChangeType, currentPage, itemsPerPage>>

\* The outer catch and finally.
ragFails(c, m) ==
  /\ ragCalls' = ragCalls \ {c}
  /\ ragError' = Message(IF m # "" THEN m ELSE "RAG analysis failed")
  /\ ragLoading' = FALSE
  /\ UNCHANGED ragOutput

\* The generate fetch has settled.
ragGenerateFetchSettled ==
  /\ \E c \in ragCalls :
       /\ c.at = "generateFetch"
       /\ \/ /\ ragCalls' = (ragCalls \ {c}) \cup {RagCall(c.id, "generateJson", c.ingest, c.report)}
             /\ UNCHANGED <<ragOutput, ragError, ragLoading>>
          \/ \E m \in RagThrown : ragFails(c, m)
  /\ UNCHANGED <<oldJson, newJson, report, score, pc, views, oldUrl, newUrl, error, loading,
                 call, served, searchQuery, selectedChangeType, currentPage, itemsPerPage>>

\* generateResponse.json() has settled: the answer is shown, or the call
\* ends in the catch.
ragGenerateJsonSettled ==
  /\ \E c \in ragCalls :
       /\ c.at = "generateJson"
       /\ \/ \E m \in RagThrown : ragFails(c, m)
          \/ \E res \in RagResults :
               IF ~res.ok
                 THEN ragFails(c, IF res.msg # "" THEN res.msg ELSE "Generation failed")
               ELSE /\ ragOutput' = Explanation(IF res.answer # "" THEN res.answer
                                                  ELSE "No response from AI system.", c.report)
                    /\ ragLoading' = FALSE
                    /\ ragCalls' = ragCalls \ {c}
                    /\ UNCHANGED ragError
  /\ UNCHANGED <<oldJson, newJson, report, score, pc, views, oldUrl, newUrl, error, loading,
                 call, served, searchQuery, selectedChangeType, currentPage, itemsPerPage>>

(***************************************************************************)
(* RagSpec: analyzeWithRAG is called on the page as constructed, on the    *)
(* page after an analysis, and after loadSampleFromAPI has cleared the     *)
(* results; the service answers in every way.                              *)
(***************************************************************************)
RagInit ==
  /\ pc = "page"
  /\ views = NoViews
  /\ PageConstructed
  /\ served = {}
  /\ \/ oldJson = Nil /\ newJson = Nil /\ report = Nil /\ score = Nil
     \/ \E o, n \in TruthyRoots :
          /\ oldJson = o /\ newJson = n
          /\ report = diffSchemas(o, n)
          /\ score = Score(scoreDiff(report))

RagNext ==
  \/ analyzeWithRAG \/ loadSampleFromAPI
  \/ ragIngestFetchSettled \/ ragIngestJsonSettled
  \/ ragGenerateFetchSettled \/ ragGenerateJsonSettled

RagSpec == RagInit /\ [][RagNext]_vars

\* C24: AI explanation request protocol.  A call whose ingest attempt has
\* failed has sent its generate request; a call that has sent its generate
\* request has finished its ingest attempt; the step in which an ingest
\* attempt fails sends the generate request; and a call made while report,
\* oldJson or newJson is null starts no request and changes nothing but
\* ragError.
GenerateSent(c) == c.at \in {"generateFetch", "generateJson"}

IngestFails(c) ==
  /\ c \in ragCalls /\ c.ingest = "pending"
  /\ \E d \in ragCalls' : d.id = c.id /\ d.ingest = "failed"

C24_RagProtocol ==
  [][ /\ \A c \in ragCalls' :
           /\ c.ingest = "failed" => GenerateSent(c)
           /\ GenerateSent(c) => c.ingest # "pending"
      /\ \A c \in ragCalls :
           /\ IngestFails(c) => \E d \in ragCalls' : d.id = c.id /\ d.at = "generateFetch"
           /\ c.ingest = "pending" => (c \in ragCalls' \/ \E d \in ragCalls' : d.id = c.id)
      /\ (analyzeWithRAG /\ (report = Nil \/ oldJson = Nil \/ newJson = Nil)) =>
           /\ ragCalls' = ragCalls
           /\ ragError' # Nil
           /\ UNCHANGED <<ragOutput, ragLoading, Results, Filters, error, loading>>
    ]_vars

\* C24 witness: a call waits for the answer to its generate request after
\* a failed ingest, and a later call, made after the results were cleared,
\* has only set ragError.
C24_Witness ==
  /\ \E c \in ragCalls : c.ingest = "failed" /\ c.at = "generateJson"
  /\ Cardinality(ragCalls) = 1
  /\ report = Nil
  /\ ragError = Message("No diff report available. Please run analysis first.")

\* C25: the score is 0 exactly when there are no changes.  A scored report
\* has score 0 if and only if its list of changes is empty; every non-empty
\* report scores at least 10, and a report of one AddedField scores 10.
C25_ZeroIffNoChanges ==
  Scored =>
    /\ (score = 0) <=> (report.changes = <<>>)
    /\ report.changes # <<>> => score >= 10
    /\ (Len(report.changes) = 1 /\ report.changes[1].kind = "ADDED_FIELD") => score = 10

\* C25 witness: a report of one AddedField has been scored 10.
C25_Witness ==
  /\ Scored
  /\ Len(report.changes) = 1
  /\ report.changes[1].kind = "ADDED_FIELD"
  /\ score = 10

(***************************************************************************)
(* ExplainSpec: the page with the AI explanation.  The samples are loaded  *)
(* and analysed, the explanation is requested with the button, and the     *)
(* loaders and further analyses run while requests are in flight.          *)
(***************************************************************************)
ExplainInit ==
  /\ oldJson = Nil /\ newJson = Nil /\ report = Nil /\ score = Nil
  /\ pc = "page"
  /\ views = NoViews
  /\ PageConstructed
  /\ served = {Loaded(Scenario1[1]), Loaded(Scenario1[2]), Rejected("Fetch 404")}

ExplainNext ==
  \/ analyzeCall \/ analyzeOldSettled \/ analyzeNewSettled
  \/ loadSamples \/ loadSampleFromAPI
  \/ clickExplain
  \/ ragIngestFetchSettled \/ ragIngestJsonSettled
  \/ ragGenerateFetchSettled \/ ragGenerateJsonSettled

ExplainSpec == ExplainInit /\ [][ExplainNext]_vars

\* C28: the AI explanation always belongs to the report on screen.  Where
\* ragOutput is set, a report is held and ragOutput was generated from it;
\* ragLoading is true exactly while a call of analyzeWithRAG is in flight;
\* at most one is in flight.
C28_ExplanationOfReportOnScreen ==
  /\ ragOutput # Nil => (report # Nil /\ ragOutput.from = report)
  /\ ragLoading <=> ragCalls # {}
  /\ Cardinality(ragCalls) <= 1

(***************************************************************************)
(* The change list and its pagination (src/unnamed/part_005 692-710,       *)
(* 1079, 1091-1121, 1142, 1163-1183, 1225-1315).                           *)
(***************************************************************************)
\* String.prototype.toLowerCase, letter by letter.
lowerCaseLetter(ch) ==
  LET UpperCaseLetters == "ABCDEFGHIJKLMNOPQRSTUVWXYZ"
      LowerCaseLetters == "abcdefghijklmnopqrstuvwxyz"
      at == { i \in 1..Len(UpperCaseLetters) : SubSeq(UpperCaseLetters, i, i) = ch }
  IN  IF at = {} THEN ch
      ELSE SubSeq(LowerCaseLetters, CHOOSE i \in at : TRUE, CHOOSE i \in at : TRUE)

RECURSIVE toLowerCase(_)
toLowerCase(s) ==
  IF Len(s) = 0 THEN ""
  ELSE lowerCaseLetter(SubSeq(s, 1, 1)) \o toLowerCase(SubSeq(s, 2, Len(s)))

\* String.prototype.includes
includes(s, part) ==
  \E i \in 0..(Len(s) - Len(part)) : SubSeq(s, i + 1, i + Len(part)) = part

\* A slip: the search is ignored.
matchesFiltersTypeOnly(c, type, query) ==
  ~(type # "ALL" /\ c.kind # type)

\* The filter callback of the change list (the same in the effect, in the
\* table body and in the pagination controls).
matchesFilters(c, type, query) ==
  IF type # "ALL" /\ c.kind # type THEN FALSE
  ELSE IF query # "" /\ ~includes(toLowerCase(c.path), toLowerCase(query)) THEN FALSE
  ELSE TRUE

\* Array.prototype.filter: the elements kept, in order.
filterChanges(changes, type, query) ==
  LET kept == { i \in 1..Len(changes) : matchesFilters(changes[i], type, query) }
      nth(k) == CHOOSE i \in kept : Cardinality({ j \in kept : j < i }) = k - 1
  IN  [k \in 1..Cardinality(kept) |-> changes[nth(k)]]

\* Math.ceil(totalItems / itemsPerPage)
MathCeilDiv(a, b) == (a + b - 1) \div b

totalPagesOf(changes, type, query, perPage) ==
  MathCeilDiv(Len(filterChanges(changes, type, query)), perPage)

totalPages == totalPagesOf(report.changes, selectedChangeType, searchQuery, itemsPerPage)

\* The effect of lines 692-710, run after a render in which one of report,
\* selectedChangeType, searchQuery, itemsPerPage, currentPage has changed:
\* the page it leaves.  It leaves page 1 as it is, so the handlers that set
\* page 1 are not followed by a change.
pageAfterEffect(changes, type, query, perPage, page) ==
  LET total == totalPagesOf(changes, type, query, perPage)
  IN  IF page > total /\ total > 0 THEN 1 ELSE page

\* Array.prototype.slice(startIndex, endIndex)
slice(xs, startIndex, endIndex) == SubSeq(xs, startIndex + 1, Min(endIndex, Len(xs)))

\* The rows of the table body when the page number is page.
paginatedChangesOn(changes, type, query, perPage, page) ==
  LET filtered == filterChanges(changes, type, query)
      totalItems == Len(filtered)
      total == MathCeilDiv(totalItems, perPage)
      validPage == Min(Max(1, page), IF total # 0 THEN total ELSE 1)
      startIndex == (validPage - 1) * perPage
      endIndex == startIndex + perPage
  IN  slice(filtered, startIndex, endIndex)

paginatedChanges ==
  paginatedChangesOn(report.changes, selectedChangeType, searchQuery, itemsPerPage, currentPage)

\* getPageNumbers of the pagination controls, without the "..." entries.
getPageNumbers ==
  IF totalPages <= 5 THEN 1..totalPages
  ELSE IF currentPage <= 3 THEN (1..4) \cup {totalPages}
  ELSE IF currentPage >= totalPages - 2 THEN {1} \cup ((totalPages - 3)..totalPages)
  ELSE {1, totalPages} \cup ((currentPage - 1)..(currentPage + 1))

\* The pagination controls are rendered.
controlsRendered == report # Nil /\ totalPages > 1

\* A slip: the search leaves the page number alone.
typeSearchKeepsPage ==
  /\ report # Nil
  /\ \E q \in {"", "US", "zz"} :
       /\ searchQuery' = q
       /\ currentPage' = pageAfterEffect(report.changes, selectedChangeType, q, itemsPerPage, currentPage)
  /\ UNCHANGED <<oldJson, newJson, report, score, pc, views, oldUrl, newUrl, error, loading,
                 call, served, selectedChangeType, itemsPerPage,
                 ragOutput, ragError, ragLoading, ragCalls>>

\* The path search, onChange.
typeSearch ==
  /\ report # Nil
  /\ \E q \in {"", "US", "zz"} :
       /\ searchQuery' = q
       /\ currentPage' = 1
  /\ UNCHANGED <<oldJson, newJson, report, score, pc, views, oldUrl, newUrl, error, loading,
                 call, served, selectedChangeType, itemsPerPage,
                 ragOutput, ragError, ragLoading, ragCalls>>

\* The select "Items per page", onChange.
selectItemsPerPage ==
  /\ report # Nil
  /\ itemsPerPage' \in {10, 25, 50}
  /\ currentPage' = 1
  /\ UNCHANGED <<oldJson, newJson, report, score, pc, views, oldUrl, newUrl, error, loading,
                 call, served, searchQuery, selectedChangeType,
                 ragOutput, ragError, ragLoading, ragCalls>>

\* The button Previous (disabled on page 1), and the effect after it.
previousPage ==
  /\ controlsRendered
  /\ currentPage # 1
  /\ currentPage' = pageAfterEffect(report.changes, selectedChangeType, searchQuery, itemsPerPage,
                                    Max(1, currentPage - 1))
  /\ UNCHANGED <<oldJson, newJson, report, score, pc, views, oldUrl, newUrl, error, loading,
                 call, served, searchQuery, selectedChangeType, itemsPerPage,
                 ragOutput, ragError, ragLoading, ragCalls>>

\* The button Next (disabled on the last page), and the effect after it.
nextPage ==
  /\ controlsRendered
  /\ currentPage # totalPages
  /\ currentPage' = pageAfterEffect(report.changes, selectedChangeType, searchQuery, itemsPerPage,
                                    Min(totalPages, currentPage + 1))
  /\ UNCHANGED <<oldJson, newJson, report, score, pc, views, oldUrl, newUrl, error, loading,
                 call, served, searchQuery, selectedChangeType, itemsPerPage,
                 ragOutput, ragError, ragLoading, ragCalls>>

\* A page-number button, and the effect after it.
gotoPage ==
  /\ controlsRendered
  /\ \E page \in getPageNumbers :
       currentPage' = pageAfterEffect(report.changes, selectedChangeType, searchQuery,
                                      itemsPerPage, page)
  /\ UNCHANGED <<oldJson, newJson, report, score, pc, views, oldUrl, newUrl, error, loading,
                 call, served, searchQuery, selectedChangeType, itemsPerPage,
                 ragOutput, ragError, ragLoading, ragCalls>>

(***************************************************************************)
(* PagerSpec: documents with few and with many differences are analysed,   *)
(* the list is filtered, searched and paged, and analysed again.           *)
(***************************************************************************)
\* An object of thirty numbers, with keys in two spellings.
PagerOld ==
  Obj([i \in 1..30 |-> <<(IF i % 2 = 0 THEN "Us" ELSE "it") \o ToString(i), JNum(i)>>])

\* Its next version: every third key is gone, every third is a string,
\* fifteen keys are new.
PagerNew ==
  LET kept == SelectSeq(PagerOld.entries, LAMBDA e : e.val.n % 3 # 1)
      changed == [i \in 1..Len(kept) |->
                    IF kept[i].val.n % 3 = 2 THEN [kept[i] EXCEPT !.val = JStr("x")] ELSE kept[i]]
      added == [i \in 1..15 |-> [key |-> "xus" \o ToString(i), val |-> JBool(TRUE)]]
  IN  JObj(changed \o added)

PagerInit ==
  /\ oldJson = Nil /\ newJson = Nil /\ report = Nil /\ score = Nil
  /\ pc = "page"
  /\ views = NoViews
  /\ PageConstructed
  /\ served = {Loaded(PagerOld), Loaded(PagerNew), Loaded(Scenario5[2])}

PagerNext ==
  \/ loadSamples
  \/ analyzeCall \/ analyzeOldSettled \/ analyzeNewSettled
  \/ typeSearch \/ selectChangeType \/ selectItemsPerPage
  \/ previousPage \/ nextPage \/ gotoPage

PagerSpec == PagerInit /\ [][PagerNext]_vars

\* The number of pages a list of totalItems changes needs: the least n with
\* room for all of them.
PagesNeeded(totalItems, perPage) ==
  CHOOSE n \in 0..totalItems :
    /\ n * perPage >= totalItems
    /\ \A m \in 0..(n - 1) : m * perPage < totalItems

\* The rows of pages 1..n, one page after the other.
RECURSIVE PagesThrough(_)
PagesThrough(n) ==
  IF n = 0 THEN <<>>
  ELSE PagesThrough(n - 1)
         \o paginatedChangesOn(report.changes, selectedChangeType, searchQuery, itemsPerPage, n)

\* C29: pagination stays in range.  While a report is displayed the page
\* number lies in 1..max(1, totalPages) with totalPages the number of pages
\* the filtered list needs; the rendered page is non-empty when the filtered
\* list is; and pages 1..totalPages, one after the other, are the filtered
\* list.
C29_PaginationInRange ==
  report # Nil =>
    LET filtered == filterChanges(report.changes, selectedChangeType, searchQuery)
        needed == PagesNeeded(Len(filtered), itemsPerPage)
    IN  /\ MathCeilDiv(Len(filtered), itemsPerPage) = needed
        /\ 1 <= currentPage /\ currentPage <= Max(1, needed)
        /\ filtered # <<>> => paginatedChanges # <<>>
        /\ PagesThrough(needed) = filtered

\* C29 witness: the list is filtered and searched into more than one page,
\* the last page is shown, and it is shorter than a page.
C29_Witness ==
  /\ report # Nil
  /\ selectedChangeType = "ADDED_FIELD" /\ searchQuery = "US"
  /\ totalPages > 1 /\ currentPage = totalPages
  /\ Len(paginatedChanges) \in 1..(itemsPerPage - 1)

(***************************************************************************)
(* renderMarkdown (src/unnamed/part_005 235-368): the blocks of the AI     *)
(* explanation.  The inline markup inside a block (renderInlineMarkdown)   *)
(* is left as text.                                                        *)
(***************************************************************************)
charAt(s, i) == SubSeq(s, i, i)

\* The three characters that open and close a code block.  A TLA+ string
\* cannot hold the grave accent: the apostrophe stands for it here and in
\* every text, and no text has an apostrophe of its own.
Fence == "'''"

\* What \s matches and trim() strips, among the characters of a line.
WhiteSpace == {" ", "\t"}

\* String.prototype.trim
trim(s) ==
  LET solid == { i \in 1..Len(s) : charAt(s, i) \notin WhiteSpace }
  IN  IF solid = {} THEN ""
      ELSE SubSeq(s, CHOOSE i \in solid : \A j \in solid : i <= j,
                     CHOOSE i \in solid : \A j \in solid : i >= j)

\* Array.prototype.join, for strings.
RECURSIVE join(_, _)
join(xs, sep) ==
  IF xs = <<>> THEN ""
  ELSE IF Len(xs) = 1 THEN xs[1]
  ELSE join(SubSeq(xs, 1, Len(xs) - 1), sep) \o sep \o xs[Len(xs)]

\* String.prototype.startsWith
startsWith(s, prefix) == Len(s) >= Len(prefix) /\ SubSeq(s, 1, Len(prefix)) = prefix

\* text.split('\n')
split(text) ==
  LET breaks == { i \in 1..Len(text) : charAt(text, i) = "\n" }
      nth(k) == IF k = 0 THEN 0
                ELSE IF k = Cardinality(breaks) + 1 THEN Len(text) + 1
                ELSE CHOOSE i \in breaks : Cardinality({ j \in breaks : j < i }) = k - 1
  IN  [k \in 1..(Cardinality(breaks) + 1) |-> SubSeq(text, nth(k - 1) + 1, nth(k) - 1)]

\* trimmed.match(/^#{1,6}\s+/)
isHeader(trimmed) ==
  \E level \in 1..6 :
    /\ Len(trimmed) > level
    /\ \A i \in 1..level : charAt(trimmed, i) = "#"
    /\ charAt(trimmed, level + 1) \in WhiteSpace

\* trimmed.match(/^[-*+]\s+/)
isListItem(trimmed) ==
  /\ Len(trimmed) >= 2
  /\ charAt(trimmed, 1) \in {"-", "*", "+"}
  /\ charAt(trimmed, 2) \in WhiteSpace

\* trimmed.match(/^[-*_]{3,}$/)
isRule(trimmed) ==
  /\ Len(trimmed) >= 3
  /\ \A i \in 1..Len(trimmed) : charAt(trimmed, i) \in {"-", "*", "_"}

\* s.replace(/^#+\s+/, '') and item.replace(/^[-*+]\s+/, ''), for a string
\* the pattern matches: what follows the marks and the white space.
afterMarks(s, marks) ==
  LET body == { i \in 1..Len(s) : charAt(s, i) \notin marks \cup WhiteSpace }
      markEnd == CHOOSE i \in 0..Len(s) :
                   /\ \A j \in 1..i : charAt(s, j) \in marks
                   /\ (i = Len(s) \/ charAt(s, i + 1) \notin marks)
      spaceEnd == CHOOSE i \in markEnd..Len(s) :
                    /\ \A j \in (markEnd + 1)..i : charAt(s, j) \in WhiteSpace
                    /\ (i = Len(s) \/ charAt(s, i + 1) \notin WhiteSpace)
  IN  SubSeq(s, spaceEnd + 1, Len(s))

\* The local variables of renderMarkdown before the loop.
RendererStart ==
  [elements |-> <<>>, currentParagraph |-> <<>>, inCodeBlock |-> FALSE,
   codeBlockContent |-> <<>>, inList |-> FALSE, listItems |-> <<>>]

processParagraph(st) ==
  IF Len(st.currentParagraph) > 0
    THEN LET paraText == trim(join(st.currentParagraph, " "))
         IN  [st EXCEPT !.elements = IF paraText # "" THEN Append(@, [tag |-> "p", text |-> paraText])
                                     ELSE @,
                        !.currentParagraph = <<>>]
  ELSE st

processList(st) ==
  IF Len(st.listItems) > 0
    THEN [st EXCEPT !.elements =
                      Append(@, [tag |-> "ul",
                                 items |-> [i \in 1..Len(st.listItems) |->
                                              afterMarks(trim(st.listItems[i]), {"-", "*", "+"})]]),
                    !.listItems = <<>>,
                    !.inList = FALSE]
  ELSE st

processCodeBlock(st) ==
  IF Len(st.codeBlockContent) > 0
    THEN [st EXCEPT !.elements = Append(@, [tag |-> "pre", code |-> st.codeBlockContent]),
                    !.codeBlockContent = <<>>,
                    !.inCodeBlock = FALSE]
  ELSE st

headerLevel(trimmed) ==
  CHOOSE n \in 1..Len(trimmed) :
    /\ \A i \in 1..n : charAt(trimmed, i) = "#"
    /\ (n = Len(trimmed) \/ charAt(trimmed, n + 1) # "#")

\* One iteration of the loop over the lines.
renderLine(st, line) ==
  LET trimmed == trim(line)
  IN  IF startsWith(trimmed, Fence)
        THEN IF st.inCodeBlock THEN processCodeBlock(st)
             ELSE [processList(processParagraph(st)) EXCEPT !.inCodeBlock = TRUE]
      ELSE IF st.inCodeBlock
        THEN [st EXCEPT !.codeBlockContent = Append(@, line)]
      ELSE IF isHeader(trimmed)
        THEN LET flushed == processList(processParagraph(st))
             IN  [flushed EXCEPT !.elements =
                    Append(@, [tag |-> "h", level |-> Min(headerLevel(trimmed), 6),
                               text |-> afterMarks(trimmed, {"#"})])]
      ELSE IF isListItem(trimmed)
        THEN LET opened == IF ~st.inList THEN [processParagraph(st) EXCEPT !.inList = TRUE] ELSE st
             IN  [opened EXCEPT !.listItems = Append(@, trimmed)]
      ELSE LET closed == IF st.inList THEN processList(st) ELSE st
           IN  IF isRule(trimmed)
                 THEN [processList(processParagraph(closed)) EXCEPT
                         !.elements = Append(@, [tag |-> "hr"])]
               ELSE IF trimmed = ""
                 THEN processList(processParagraph(closed))
               ELSE [closed EXCEPT !.currentParagraph = Append(@, line)]

\* The local variables after the first n lines.
RECURSIVE renderLines(_, _)
renderLines(lines, n) ==
  IF n = 0 THEN RendererStart
  ELSE renderLine(renderLines(lines, n - 1), lines[n])

\* renderMarkdown(text): the elements of the returned <div>.
renderMarkdown(text) ==
  IF text = "" THEN <<>>
  ELSE LET lines == split(text)
       IN  processCodeBlock(processList(processParagraph(renderLines(lines, Len(lines))))).elements

(***************************************************************************)
(* MarkdownSpec: an explanation of up to MaxLines lines is on the page and *)
(* is rendered.                                                            *)
(***************************************************************************)
MaxLines == 4

\* The texts of at most MaxLines lines: fences (bare, with a language,
\* indented), a header, a list item, a rule, an empty line, a paragraph line.
MarkdownTexts ==
  LET MarkdownLines ==
        {Fence, Fence \o "js", "  " \o Fence, "# Title", "- item", "---", "", "plain text"}
      LineSeqs == UNION { [1..n -> MarkdownLines] : n \in 0..MaxLines }
  IN  { join(ls, "\n") : ls \in LineSeqs }

MarkdownInit ==
  /\ oldJson = Scenario1[1] /\ newJson = Scenario1[2]
  /\ report = diffSchemas(oldJson, newJson)
  /\ score = Score(scoreDiff(report))
  /\ pc = "page"
  /\ views = NoViews
  /\ oldUrl = SampleUrls[1] /\ newUrl = SampleUrls[2]
  /\ error = Nil /\ loading = FALSE /\ call = Nil /\ served = {}
  /\ searchQuery = "" /\ selectedChangeType = "ALL" /\ currentPage = 1 /\ itemsPerPage = 10
  /\ \E text \in MarkdownTexts \ {""} : ragOutput = Explanation(text, report)
  /\ ragError = Nil /\ ragLoading = FALSE /\ ragCalls = {}

\* {ragOutput && ... renderMarkdown(ragOutput)} in the report section.
renderExplanationMarkdown ==
  /\ report # Nil /\ ragOutput # Nil
  /\ views.markdown = Nil
  /\ views' = [views EXCEPT !.markdown = [elements |-> renderMarkdown(ragOutput.text)]]
  /\ UNCHANGED <<oldJson, newJson, report, score, pc, pageVars>>

MarkdownNext == renderExplanationMarkdown

MarkdownSpec == MarkdownInit /\ [][MarkdownNext]_vars

\* A line that opens or closes a code block, and how many of the first n
\* lines do.
IsFence(line) == startsWith(trim(line), Fence)

FencesIn(lines, n) == Cardinality({ i \in 1..n : IsFence(lines[i]) })

\* C30: code-fence state machine of renderMarkdown.  A fence line toggles
\* code-block mode: after any number of lines the renderer is in code-block
\* mode exactly when it has read an odd number of fences, so after an opening
\* fence and its closing fence, with lines between them or none, the next
\* lines are no code; and the lines left in a block that is not closed at the
\* end of the input are emitted as one code block.
C30_FenceToggles ==
  views.markdown # Nil =>
    LET lines == split(ragOutput.text)
        last == CHOOSE i \in 0..Len(lines) :
                  /\ (i = 0 \/ IsFence(lines[i]))
                  /\ \A j \in (i + 1)..Len(lines) : ~IsFence(lines[j])
    IN  /\ \A n \in 0..Len(lines) :
             renderLines(lines, n).inCodeBlock <=> (FencesIn(lines, n) % 2 = 1)
        /\ (FencesIn(lines, Len(lines)) % 2 = 1 /\ last < Len(lines)) =>
             LET elements == views.markdown.elements
             IN  /\ elements # <<>>
                 /\ elements[Len(elements)] =
                      [tag |-> "pre", code |-> SubSeq(lines, last + 1, Len(lines))]

====
